---- MODULE Spec2Model ----
(***************************************************************************)
(* Document structure engine of gomcpgo/docgen: the manifest, the chapter  *)
(* directories with their metadata files, and the structural operations   *)
(* of document.Manager (add/delete/move chapter, add/delete section).      *)
(***************************************************************************)
EXTENDS Integers, Sequences, FiniteSets, TLC

\* ------------------------------------------------------------------ bounds
MaxTitles == 3          \* AddChapter calls issued under SpecCh, each with a fresh title
MaxDocTitles == 2       \* AddChapter calls issued under Spec
MaxDocSections == 2     \* sections stored in the whole document under Spec
MaxDocLevel == 1        \* deepest level requested under Spec
MaxSecDeep == 3         \* sections stored in the chapter under SpecSec and SpecAdd
MaxSecLevel == 3        \* deepest level requested under SpecSec and SpecAdd
MaxSecChapters == 3     \* chapters of the document SpecSec and SpecAdd start from
MaxDelSections == 4     \* sections the chapter starts with under SpecDel
MaxDelValue == 3        \* largest value in a section number under SpecDel
MaxUpdSections == 3     \* sections the chapter starts with under SpecUpd
MaxUpdValue == 2        \* largest value in a section number under SpecUpd
MaxImgFigures == 3      \* figures stored in the chapter under SpecImg
MaxGapSequence == 4     \* largest sequence number a chapter starts with under SpecGap
MaxGapFigures == 4      \* figures stored in the chapter under SpecGap
MaxAppends == 6         \* successful AddChapter calls under SpecApp
MaxMutTitles == 2       \* AddChapter calls issued under SpecMut
MaxMutSections == 1     \* sections stored in the whole document under SpecMut
MaxMutFigures == 1      \* figures stored in the whole document under SpecMut
MaxDocuments == 2       \* config.MaxDocuments of the server under SpecLib
MaxLibChapters == 2     \* chapters of one document under SpecLib
MaxValSections == 2     \* sections stored in the whole document under SpecVal
MaxPosTitles == 2       \* AddChapter calls issued under SpecPos
MaxRebSections == 2     \* sections stored in the chapter under SpecReb
MaxRebLevel == 4        \* deepest level requested under SpecReb
MaxExpSections == 1     \* sections stored in the newest chapter under SpecExp
MaxFailTitles == 4      \* AddChapter calls issued under SpecFail, the appended ones included
MaxRaceSections == 2    \* sections a chapter holds when an AddSection call starts under SpecRace
MaxRaceLevel == 2       \* deepest level requested under SpecRace
MaxLvlSections == 2     \* sections stored in the chapter under SpecLvl

\* ------------------------------------------------------- program constants
MinLevel == 1
MaxLevel == 6

\* the title the caller passes to the n-th AddChapter call
TitleOf(n) == <<"A", "B", "C", "D", "E", "F", "G", "H">>[n]
SectionTitle == "S"
SectionContent == "x"

VARIABLES
    manifest,   \* manifest.Document.Chapters: the chapter list of manifest.yaml
    counts,     \* manifest.ChapterCounts: chapter number -> count record
    dirs,       \* chapter directories: number -> metadata.yaml (+ chapter.md)
    titlesUsed, \* how many AddChapter calls the caller has issued
    last,       \* the call that produced this state, with its result
    documents,  \* the root directory: document ID -> the document stored there
    export,     \* the ExportDocument or PreviewChapter call in progress
    calls       \* the AddSection calls of the concurrent callers, statement by statement

vars == <<manifest, counts, dirs, titlesUsed, last, documents, export, calls>>

\* what the chapter, section and image operations of one document never touch
others == <<documents, export, calls>>

\* an empty root directory
NoDocuments == <<>>

\* no exporter call in progress: call is the method called, chapters the
\* chapter list of the manifest the call was given, next the index of the
\* rebuild loop, rebuilt the chapter numbers rebuilt so far; validated,
\* generated and started tell whether ValidateDocument, GenerateMarkdown and
\* cmd.Start have been reached; process is the pandoc process, expired the
\* deadline of the context made by context.WithTimeout
NoExport ==
    [phase |-> "idle", call |-> "", chapters |-> <<>>, next |-> 1, rebuilt |-> <<>>,
     validated |-> FALSE, generated |-> FALSE, started |-> FALSE, error |-> "",
     process |-> "none", expired |-> FALSE]

\* the callers that may have an AddSection call under way at the same time
Writers == {1, 2}

\* a caller with no call under way
IdleCall == [pc |-> "idle"]

NoCalls == [w \in Writers |-> IdleCall]

\* ----------------------------------------------------------------- helpers
Max(S) == CHOOSE x \in S : \A y \in S : y <= x

Reverse(s) == [i \in 1..Len(s) |-> s[Len(s) + 1 - i]]

\* a removal that leaves the sequence as it is
KeepAt(s, i) == s

RemoveAt(s, i) == SubSeq(s, 1, i - 1) \o SubSeq(s, i + 1, Len(s))

Without(f, k) == [x \in (DOMAIN f) \ {k} |-> f[x]]

ZeroCount == [Sections |-> 0, Figures |-> 0, Tables |-> 0]

\* types.Chapter as built by AddChapter; HasContent is the chapter.md file
\* and Content the lines it holds
NewChapter(num, title) ==
    [Number |-> num, Title |-> title, Sections |-> <<>>,
     Figures |-> <<>>, Tables |-> <<>>, HasContent |-> TRUE, Content |-> <<>>]

\* the copy of a chapter kept in the manifest (Content is yaml:"-")
ManifestEntry(ch) ==
    [Number |-> ch.Number, Title |-> ch.Title, Sections |-> ch.Sections,
     Figures |-> ch.Figures, Tables |-> ch.Tables]

NewSection(num, level) ==
    [Number |-> num, Title |-> SectionTitle, Content |-> SectionContent, Level |-> level]

\* a call and its result: ch is the chapter argument (the returned number for
\* AddChapter, fromPos for MoveChapter, the chapter parsed from the figure ID
\* for the image calls), num the section number passed or returned, fig the
\* figure ID passed or returned, text the title, content or caption passed
Call(op, ok, ch, pos, to, lvl, num) ==
    [op |-> op, ok |-> ok, ch |-> ch, hasPos |-> FALSE, pos |-> pos, to |-> to,
     lvl |-> lvl, num |-> num, fig |-> <<>>, text |-> ""]

\* ----------------------------------------------------------------- storage
\* a save that first reads the stored file again and keeps the sections it
\* finds there beside those of the chapter being saved
SaveChapterMetadataMerged(d, chapter) ==
    IF chapter.Number \in DOMAIN d
    THEN LET stored == d[chapter.Number].Sections
             added == SelectSeq(chapter.Sections,
                                LAMBDA x : \A i \in 1..Len(stored) : stored[i] # x)
         IN  [d EXCEPT ![chapter.Number] =
                 [chapter EXCEPT !.Sections = stored \o added,
                                 !.HasContent = d[chapter.Number].HasContent,
                                 !.Content = d[chapter.Number].Content]]
    ELSE (chapter.Number :> [chapter EXCEPT !.HasContent = FALSE, !.Content = <<>>]) @@ d

\* FileSystemStorage.SaveChapterMetadata: the file is addressed by the
\* Number field of the chapter being saved; a missing directory is created
\* by saveYAMLFile and then holds no chapter.md.
SaveChapterMetadata(d, chapter) ==
    IF chapter.Number \in DOMAIN d
    THEN [d EXCEPT ![chapter.Number] = [chapter EXCEPT !.HasContent = d[chapter.Number].HasContent,
                                                        !.Content = d[chapter.Number].Content]]
    ELSE (chapter.Number :> [chapter EXCEPT !.HasContent = FALSE, !.Content = <<>>]) @@ d

\* CreateChapterStructure that writes metadata.yaml and no chapter.md
CreateChapterWithoutContent(d, chapter) == SaveChapterMetadata(d, chapter)

\* FileSystemStorage.CreateChapterStructure: directory, chapter.md, metadata.yaml
CreateChapterStructure(d, chapter) ==
    (chapter.Number :> [chapter EXCEPT !.HasContent = TRUE]) @@ d

\* Manager.renameChapterDirectory: a missing source is skipped, os.Rename
\* onto an existing directory fails.
renameChapterDirectory(d, oldNum, newNum) ==
    IF oldNum \notin DOMAIN d THEN [dirs |-> d, ok |-> TRUE]
    ELSE IF newNum \in DOMAIN d THEN [dirs |-> d, ok |-> FALSE]
    ELSE [dirs |-> (newNum :> d[oldNum]) @@ Without(d, oldNum), ok |-> TRUE]

\* the two rename loops of renumberChapters: the first error ends the loop
\* and what was renamed before it stays renamed. fault = k makes the k-th
\* os.Rename of the loop return an I/O error, fault = 0 none.
RECURSIVE renameAll(_, _, _, _)
renameAll(d, order, offset, fault) ==
    IF order = <<>> THEN [dirs |-> d, ok |-> TRUE]
    ELSE IF Head(order) \in DOMAIN d /\ fault = 1 THEN [dirs |-> d, ok |-> FALSE]
    ELSE LET r == renameChapterDirectory(d, Head(order), Head(order) + offset)
             left == IF Head(order) \in DOMAIN d /\ fault > 0 THEN fault - 1 ELSE fault
         IN  IF ~r.ok THEN r ELSE renameAll(r.dirs, Tail(order), offset, left)

\* the chapter numbers of the manifest that are >= startFrom, in list order
toRename(chapters, startFrom) ==
    LET F[i \in 0..Len(chapters)] ==
            IF i = 0 THEN <<>>
            ELSE IF chapters[i].Number >= startFrom
                 THEN Append(F[i - 1], chapters[i].Number)
                 ELSE F[i - 1]
    IN  F[Len(chapters)]

\* Manager.renumberChapters: renames directories only
renumberChapters(d, chapters, startFrom, offset, fault) ==
    IF offset = 0 THEN [dirs |-> d, ok |-> TRUE]
    ELSE IF offset > 0
         THEN renameAll(d, Reverse(toRename(chapters, startFrom)), offset, fault)
         ELSE renameAll(d, toRename(chapters, startFrom), offset, fault)

\* --------------------------------------------------------- numbering engine
\* a number made of the level components alone, without the chapter in front
generateNumberWithoutChapter(chapter, level) ==
    LET qualifying == {i \in 1..Len(chapter.Sections) : Len(chapter.Sections[i].Number) >= level}
        maxNumbers == [i \in 1..level |->
                          Max({0} \cup {chapter.Sections[s].Number[i] : s \in qualifying})]
    IN  [maxNumbers EXCEPT ![level] = @ + 1]

\* Manager.generateNextSectionNumber: parts is the whole section number, so
\* index i of the scan reads parts[i] with the chapter component at i = 0.
generateNextSectionNumber(chapter, level) ==
    LET qualifying == {i \in 1..Len(chapter.Sections) : Len(chapter.Sections[i].Number) >= level}
        maxNumbers == [i \in 1..level |->
                          Max({0} \cup {chapter.Sections[s].Number[i] : s \in qualifying})]
        incremented == [maxNumbers EXCEPT ![level] = @ + 1]
    IN  <<chapter.Number>> \o incremented

\* a comparison that stops at the end of the shorter number
sectionNumbersAgree(a, b) ==
    \A i \in 1..Len(a) : i <= Len(b) => a[i] = b[i]

\* Manager.sectionNumbersEqual
sectionNumbersEqual(a, b) ==
    /\ Len(a) = Len(b)
    /\ \A i \in 1..Len(a) : a[i] = b[i]

\* renumberSectionsAfterDeletion that lowers only the sections of the deleted
\* section's own depth and leaves the subsections of later siblings alone
renumberSameDepthOnly(sections, deleted) ==
    IF Len(deleted) < 2 THEN sections
    ELSE LET renum(n) ==
                 IF /\ Len(n) = Len(deleted)
                    /\ SubSeq(n, 1, Len(n) - 1) = SubSeq(deleted, 1, Len(n) - 1)
                    /\ n[Len(n)] > deleted[Len(n)]
                 THEN [n EXCEPT ![Len(n)] = @ - 1]
                 ELSE n
         IN  [i \in 1..Len(sections) |-> [sections[i] EXCEPT !.Number = renum(@)]]

\* Manager.renumberSectionsAfterDeletion (the code's 0-based index j is j + 1 here)
renumberSectionsAfterDeletion(sections, deleted) ==
    IF Len(deleted) < 2 THEN sections
    ELSE LET deletedLevel == Len(deleted) - 1
             chapterNum == deleted[1]
             shouldRenumber(n) == \A j \in 1..(deletedLevel - 1) : n[j + 1] = deleted[j + 1]
             renum(n) ==
                 IF /\ Len(n) > deletedLevel
                    /\ n[1] = chapterNum
                    /\ shouldRenumber(n)
                    /\ n[deletedLevel + 1] > deleted[deletedLevel + 1]
                 THEN [n EXCEPT ![deletedLevel + 1] = @ - 1]
                 ELSE n
         IN  [i \in 1..Len(sections) |-> [sections[i] EXCEPT !.Number = renum(@)]]

\* -------------------------------------------------------------------- Init
Init ==
    /\ manifest = <<>>
    /\ counts = <<>>
    /\ dirs = <<>>
    /\ titlesUsed = 0
    /\ documents = NoDocuments
    /\ export = NoExport
    /\ calls = NoCalls
    /\ last = Call("CreateDocument", TRUE, 0, 0, 0, 0, <<>>)

\* ---------------------------------------------------------------- chapters
\* a failed renumbering whose renames are taken back
restoredAfterError(before, reached) == before

\* the error return after a failed renumberChapters: nothing is undone, the
\* chapter directories stay as the failing loop left them
leftAfterError(before, reached) == reached

\* a call in which the fault-th os.Rename returned an I/O error
Faulted(call, fault) == IF fault > 0 THEN call @@ [fault |-> fault] ELSE call

\* Manager.AddChapter; hasPos = FALSE is position == nil, fault the os.Rename
\* of renumberChapters that returns an I/O error (0: none)
AddChapterOrFault(title, hasPos, position, fault) ==
    /\ UNCHANGED others
    /\ LET chapterNum == IF hasPos THEN position ELSE Len(manifest) + 1
           r == IF hasPos THEN renumberChapters(dirs, manifest, chapterNum, 1, fault)
                ELSE [dirs |-> dirs, ok |-> TRUE]
           chapter == NewChapter(chapterNum, title)
       IN  IF title = ""
           THEN /\ UNCHANGED <<manifest, counts, dirs>>
                /\ last' = Faulted([Call("AddChapter", FALSE, 0, position, 0, 0, <<>>)
                                       EXCEPT !.hasPos = hasPos], fault)
           ELSE IF ~r.ok
           THEN /\ dirs' = leftAfterError(dirs, r.dirs)
                /\ UNCHANGED <<manifest, counts>>
                /\ last' = Faulted([Call("AddChapter", FALSE, 0, position, 0, 0, <<>>)
                                       EXCEPT !.hasPos = hasPos, !.text = title], fault)
           ELSE /\ dirs' = CreateChapterStructure(r.dirs, chapter)
                /\ manifest' = Append(manifest, ManifestEntry(chapter))
                /\ counts' = (chapterNum :> ZeroCount) @@ counts
                /\ last' = Faulted([Call("AddChapter", TRUE, chapterNum, position, 0, 0, <<>>)
                                       EXCEPT !.hasPos = hasPos, !.text = title], fault)

\* Manager.AddChapter on storage whose renames return no I/O error
AddChapter(title, hasPos, position) == AddChapterOrFault(title, hasPos, position, 0)

\* Manager.DeleteChapter; fault is the os.Rename of renumberChapters that
\* returns an I/O error (0: none)
DeleteChapterOrFault(chapterNum, fault) ==
    /\ UNCHANGED others
    /\ IF chapterNum \notin DOMAIN dirs
       THEN /\ UNCHANGED <<manifest, counts, dirs>>
            /\ last' = Faulted(Call("DeleteChapter", FALSE, chapterNum, 0, 0, 0, <<>>), fault)
       ELSE LET deleted == Without(dirs, chapterNum)
                r == renumberChapters(deleted, manifest, chapterNum + 1, -1, fault)
                kept == SelectSeq(manifest, LAMBDA ch : ch.Number # chapterNum)
                updatedChapters == [i \in 1..Len(kept) |->
                                       IF kept[i].Number > chapterNum
                                       THEN [kept[i] EXCEPT !.Number = @ - 1]
                                       ELSE kept[i]]
                newKeys == {IF k > chapterNum THEN k - 1 ELSE k : k \in (DOMAIN counts) \ {chapterNum}}
                updatedCounts == [k \in newKeys |->
                                     IF k >= chapterNum /\ (k + 1) \in DOMAIN counts
                                     THEN counts[k + 1] ELSE counts[k]]
            IN  IF ~r.ok
                THEN /\ dirs' = leftAfterError(dirs, r.dirs)
                     /\ UNCHANGED <<manifest, counts>>
                     /\ last' = Faulted(Call("DeleteChapter", FALSE, chapterNum, 0, 0, 0, <<>>),
                                        fault)
                ELSE /\ dirs' = r.dirs
                     /\ manifest' = updatedChapters
                     /\ counts' = updatedCounts
                     /\ last' = Faulted(Call("DeleteChapter", TRUE, chapterNum, 0, 0, 0, <<>>),
                                        fault)

\* Manager.DeleteChapter on storage whose renames return no I/O error
DeleteChapter(chapterNum) == DeleteChapterOrFault(chapterNum, 0)

\* Manager.MoveChapter: positions above the length are rejected, equal
\* positions return nil, and an index below 0 makes the slice expression
\* panic before anything is saved
MoveChapter(fromPos, toPos) ==
    /\ UNCHANGED others
    /\ IF fromPos > Len(manifest) \/ toPos > Len(manifest)
       THEN /\ UNCHANGED <<manifest, counts, dirs>>
            /\ last' = Call("MoveChapter", FALSE, fromPos, 0, toPos, 0, <<>>)
       ELSE IF fromPos = toPos
       THEN /\ UNCHANGED <<manifest, counts, dirs>>
            /\ last' = Call("MoveChapter", TRUE, fromPos, 0, toPos, 0, <<>>)
       ELSE IF fromPos < 1 \/ toPos < 1
       THEN /\ UNCHANGED <<manifest, counts, dirs>>
            /\ last' = Call("MoveChapter", FALSE, fromPos, 0, toPos, 0, <<>>)
                           @@ [panic |-> TRUE]
       ELSE LET chapterToMove == manifest[fromPos]
                removed == RemoveAt(manifest, fromPos)
                toIdx == toPos - 1
                inserted == IF toIdx >= Len(removed)
                            THEN Append(removed, chapterToMove)
                            ELSE SubSeq(removed, 1, toIdx) \o <<chapterToMove>>
                                 \o SubSeq(removed, toIdx + 1, Len(removed))
                r == renumberChapters(dirs, inserted, 0, 0, 0)
            IN  /\ dirs' = r.dirs
                /\ manifest' = inserted
                /\ UNCHANGED counts
                /\ last' = Call("MoveChapter", TRUE, fromPos, 0, toPos, 0, <<>>)

\* a position check that lets every number through
positionAny(pos) == TRUE

\* the position check of handleMoveChapter
positionAtLeastOne(pos) == pos >= 1

\* DocGenHandler.handleMoveChapter: both positions at least 1 and different,
\* then Manager.MoveChapter
handleMoveChapter(fromPos, toPos) ==
    IF ~positionAtLeastOne(fromPos) \/ ~positionAtLeastOne(toPos) \/ fromPos = toPos
    THEN /\ UNCHANGED <<manifest, counts, dirs, others>>
         /\ last' = Call("MoveChapter", FALSE, fromPos, 0, toPos, 0, <<>>)
    ELSE MoveChapter(fromPos, toPos)

\* ---------------------------------------------------------------- sections
\* a level check without the upper limit
levelAtLeastOne(level) == level >= MinLevel

\* the level check of handleAddSection and Manager.AddSection
validLevel(level) == level >= MinLevel /\ level <= MaxLevel

\* an AddSection call and its result
SectionCall(ok, chapterNum, title, content, level, sectionNum) ==
    [Call("AddSection", ok, chapterNum, 0, 0, level, sectionNum) EXCEPT !.text = content]
        @@ [title |-> title]

\* Manager.AddSection
AddSection(chapterNum, title, content, level) ==
    /\ UNCHANGED others
    /\ IF title = "" \/ content = "" \/ ~validLevel(level) \/ chapterNum \notin DOMAIN dirs
       THEN /\ UNCHANGED <<manifest, counts, dirs>>
            /\ last' = SectionCall(FALSE, chapterNum, title, content, level, <<>>)
       ELSE LET chapter == dirs[chapterNum]
                sectionNum == generateNextSectionNumber(chapter, level)
                section == [NewSection(sectionNum, level) EXCEPT !.Title = title,
                                                                 !.Content = content]
                updated == [chapter EXCEPT !.Sections = Append(@, section)]
            IN  /\ dirs' = SaveChapterMetadata(dirs, updated)
                /\ UNCHANGED <<manifest, counts>>
                /\ last' = SectionCall(TRUE, chapterNum, title, content, level, sectionNum)

\* Manager.AddSection of caller w up to LoadChapterMetadata: the checks, then
\* the chapter as the file holds it now. raced tells that another caller
\* holds a copy of the same chapter it has not saved yet.
AddSectionLoad(w, chapterNum, title, content, level) ==
    /\ calls[w].pc = "idle"
    /\ IF title = "" \/ content = "" \/ ~validLevel(level) \/ chapterNum \notin DOMAIN dirs
       THEN /\ calls' = [calls EXCEPT ![w] =
                            [pc |-> "returned", ok |-> FALSE, ch |-> chapterNum,
                             level |-> level, raced |-> FALSE]]
            /\ last' = SectionCall(FALSE, chapterNum, title, content, level, <<>>)
       ELSE LET racing == {v \in Writers \ {w} :
                              calls[v].pc = "loaded" /\ calls[v].ch = chapterNum}
            IN  /\ calls' = [v \in Writers |->
                                IF v = w
                                THEN [pc |-> "loaded", ch |-> chapterNum, title |-> title,
                                      content |-> content, level |-> level,
                                      chapter |-> dirs[chapterNum], raced |-> racing # {}]
                                ELSE IF v \in racing
                                THEN [calls[v] EXCEPT !.raced = TRUE]
                                ELSE calls[v]]
                /\ UNCHANGED last
    /\ UNCHANGED <<manifest, counts, dirs, titlesUsed, documents, export>>

\* Manager.AddSection of caller w from generateNextSectionNumber on: the
\* number is made from the copy loaded before, the section is appended to
\* that copy and the copy is saved over the file, whatever the file holds now
AddSectionSave(w) ==
    /\ calls[w].pc = "loaded"
    /\ LET call == calls[w]
           sectionNum == generateNextSectionNumber(call.chapter, call.level)
           section == [NewSection(sectionNum, call.level) EXCEPT !.Title = call.title,
                                                                  !.Content = call.content]
           updated == [call.chapter EXCEPT !.Sections = Append(@, section)]
       IN  /\ dirs' = SaveChapterMetadata(dirs, updated)
           /\ calls' = [calls EXCEPT ![w] =
                           [pc |-> "returned", ok |-> TRUE, ch |-> call.ch,
                            level |-> call.level, raced |-> call.raced,
                            loaded |-> call.chapter, section |-> section]]
           /\ last' = SectionCall(TRUE, call.ch, call.title, call.content, call.level,
                                  sectionNum)
    /\ UNCHANGED <<manifest, counts, titlesUsed, documents, export>>

\* the callers go on to their next calls once none of them is inside a call
NextCalls ==
    /\ \A w \in Writers : calls[w].pc = "returned"
    /\ calls' = NoCalls
    /\ UNCHANGED <<manifest, counts, dirs, titlesUsed, last, documents, export>>

\* Manager.DeleteSection
DeleteSection(chapterNum, sectionNum) ==
    /\ UNCHANGED others
    /\ IF chapterNum \notin DOMAIN dirs
       THEN /\ UNCHANGED <<manifest, counts, dirs>>
            /\ last' = Call("DeleteSection", FALSE, chapterNum, 0, 0, 0, sectionNum)
       ELSE LET chapter == dirs[chapterNum]
                hits == {i \in 1..Len(chapter.Sections) :
                            sectionNumbersEqual(chapter.Sections[i].Number, sectionNum)}
            IN  IF hits = {}
                THEN /\ UNCHANGED <<manifest, counts, dirs>>
                     /\ last' = Call("DeleteSection", FALSE, chapterNum, 0, 0, 0, sectionNum)
                ELSE LET i == CHOOSE x \in hits : \A y \in hits : x <= y
                         remaining == RemoveAt(chapter.Sections, i)
                         updated == [chapter EXCEPT !.Sections =
                                        renumberSectionsAfterDeletion(remaining, sectionNum)]
                     IN  /\ dirs' = SaveChapterMetadata(dirs, updated)
                         /\ UNCHANGED <<manifest, counts>>
                         /\ last' = Call("DeleteSection", TRUE, chapterNum, 0, 0, 0, sectionNum)

\* Manager.UpdateSection
UpdateSection(chapterNum, sectionNum, content) ==
    /\ UNCHANGED others
    /\ IF content = "" \/ chapterNum \notin DOMAIN dirs
       THEN /\ UNCHANGED <<manifest, counts, dirs>>
            /\ last' = [Call("UpdateSection", FALSE, chapterNum, 0, 0, 0, sectionNum)
                           EXCEPT !.text = content]
       ELSE LET chapter == dirs[chapterNum]
                hits == {i \in 1..Len(chapter.Sections) :
                            sectionNumbersEqual(chapter.Sections[i].Number, sectionNum)}
            IN  IF hits = {}
                THEN /\ UNCHANGED <<manifest, counts, dirs>>
                     /\ last' = [Call("UpdateSection", FALSE, chapterNum, 0, 0, 0, sectionNum)
                                    EXCEPT !.text = content]
                ELSE LET i == CHOOSE x \in hits : \A y \in hits : x <= y
                         updated == [chapter EXCEPT !.Sections[i].Content = content]
                     IN  /\ dirs' = SaveChapterMetadata(dirs, updated)
                         /\ UNCHANGED <<manifest, counts>>
                         /\ last' = [Call("UpdateSection", TRUE, chapterNum, 0, 0, 0, sectionNum)
                                        EXCEPT !.text = content]

\* Manager.UpdateChapterMetadata: the metadata file, then the first manifest
\* entry carrying that number
UpdateChapterMetadata(chapterNum, title) ==
    /\ UNCHANGED others
    /\ IF title = "" \/ chapterNum \notin DOMAIN dirs
       THEN /\ UNCHANGED <<manifest, counts, dirs>>
            /\ last' = [Call("UpdateChapterMetadata", FALSE, chapterNum, 0, 0, 0, <<>>)
                           EXCEPT !.text = title]
       ELSE LET chapter == [dirs[chapterNum] EXCEPT !.Title = title]
                hits == {i \in 1..Len(manifest) : manifest[i].Number = chapterNum}
            IN  /\ dirs' = SaveChapterMetadata(dirs, chapter)
                /\ manifest' = IF hits = {} THEN manifest
                               ELSE LET i == CHOOSE x \in hits : \A y \in hits : x <= y
                                    IN  [manifest EXCEPT ![i].Title = title]
                /\ UNCHANGED counts
                /\ last' = [Call("UpdateChapterMetadata", TRUE, chapterNum, 0, 0, 0, <<>>)
                               EXCEPT !.text = title]

\* Manager.GetChapter: the directory must exist, then metadata.yaml and
\* chapter.md are read from it
GetChapter(chapterNum) ==
    IF chapterNum \notin DOMAIN dirs THEN [ok |-> FALSE]
    ELSE IF ~dirs[chapterNum].HasContent THEN [ok |-> FALSE]
    ELSE [ok |-> TRUE, chapter |-> dirs[chapterNum]]

\* ------------------------------------------------------------------ images
ImagePath == "img.png"

\* types.GenerateFigureID and the Sprintf("fig-%d.%d") of the manager
GenerateFigureID(chapter, sequence) == <<"fig", chapter, sequence>>

\* Manager.parseFigureIDChapter
parseFigureIDChapter(figureID) == figureID[2]

NewFigure(chapterNum, sequence, caption) ==
    [ID |-> GenerateFigureID(chapterNum, sequence), Chapter |-> chapterNum,
     Sequence |-> sequence, Caption |-> caption, ImagePath |-> ImagePath]

\* Manager.AddImage: the sequence is the length of the figure list plus one
AddImage(chapterNum, caption) ==
    /\ UNCHANGED others
    /\ IF caption = "" \/ chapterNum \notin DOMAIN dirs
       THEN /\ UNCHANGED <<manifest, counts, dirs>>
            /\ last' = [Call("AddImage", FALSE, chapterNum, 0, 0, 0, <<>>)
                           EXCEPT !.text = caption]
       ELSE LET chapter == dirs[chapterNum]
                sequence == Len(chapter.Figures) + 1
                figure == NewFigure(chapterNum, sequence, caption)
                updated == [chapter EXCEPT !.Figures = Append(@, figure)]
            IN  /\ dirs' = SaveChapterMetadata(dirs, updated)
                /\ UNCHANGED <<manifest, counts>>
                /\ last' = [Call("AddImage", TRUE, chapterNum, 0, 0, 0, <<>>)
                               EXCEPT !.text = caption, !.fig = figure.ID]

\* Manager.UpdateImageCaption
UpdateImageCaption(figureID, newCaption) ==
    /\ UNCHANGED others
    /\ LET chapterNum == parseFigureIDChapter(figureID)
           failed == /\ UNCHANGED <<manifest, counts, dirs>>
                     /\ last' = [Call("UpdateImageCaption", FALSE, chapterNum, 0, 0, 0, <<>>)
                                    EXCEPT !.text = newCaption, !.fig = figureID]
       IN  IF newCaption = "" \/ chapterNum \notin DOMAIN dirs THEN failed
           ELSE LET chapter == dirs[chapterNum]
                    hits == {i \in 1..Len(chapter.Figures) : chapter.Figures[i].ID = figureID}
                IN  IF hits = {} THEN failed
                    ELSE LET i == CHOOSE x \in hits : \A y \in hits : x <= y
                             updated == [chapter EXCEPT !.Figures[i].Caption = newCaption]
                         IN  /\ dirs' = SaveChapterMetadata(dirs, updated)
                             /\ UNCHANGED <<manifest, counts>>
                             /\ last' = [Call("UpdateImageCaption", TRUE, chapterNum, 0, 0, 0, <<>>)
                                            EXCEPT !.text = newCaption, !.fig = figureID]

\* the figures left as they are after a deletion
keepFigureSequences(figures, deletedSequence, chapterNum) == figures

\* the sequences above the deleted one lowered, the IDs left as they were
lowerSequencesKeepIDs(figures, deletedSequence, chapterNum) ==
    [j \in 1..Len(figures) |->
        IF figures[j].Sequence > deletedSequence
        THEN [figures[j] EXCEPT !.Sequence = @ - 1]
        ELSE figures[j]]

\* the renumbering loop of Manager.DeleteImage: every figure above the deleted
\* sequence gets one less and an ID rebuilt from the parsed chapter number
renumberSubsequentFigures(figures, deletedSequence, chapterNum) ==
    [j \in 1..Len(figures) |->
        IF figures[j].Sequence > deletedSequence
        THEN [figures[j] EXCEPT
                 !.Sequence = @ - 1,
                 !.ID = GenerateFigureID(chapterNum, figures[j].Sequence - 1)]
        ELSE figures[j]]

\* Manager.DeleteImage: remove the first figure with that ID, then renumber
DeleteImage(figureID) ==
    /\ UNCHANGED others
    /\ LET chapterNum == parseFigureIDChapter(figureID)
           failed == /\ UNCHANGED <<manifest, counts, dirs>>
                     /\ last' = [Call("DeleteImage", FALSE, chapterNum, 0, 0, 0, <<>>)
                                    EXCEPT !.fig = figureID]
       IN  IF chapterNum \notin DOMAIN dirs THEN failed
           ELSE LET chapter == dirs[chapterNum]
                    hits == {i \in 1..Len(chapter.Figures) : chapter.Figures[i].ID = figureID}
                IN  IF hits = {} THEN failed
                    ELSE LET i == CHOOSE x \in hits : \A y \in hits : x <= y
                             deletedSequence == chapter.Figures[i].Sequence
                             remaining == RemoveAt(chapter.Figures, i)
                             updated == [chapter EXCEPT !.Figures =
                                            renumberSubsequentFigures(remaining, deletedSequence,
                                                                      chapterNum)]
                         IN  /\ dirs' = SaveChapterMetadata(dirs, updated)
                             /\ UNCHANGED <<manifest, counts>>
                             /\ last' = [Call("DeleteImage", TRUE, chapterNum, 0, 0, 0, <<>>)
                                            EXCEPT !.fig = figureID]

\* ----------------------------------------------------------------- rebuild
\* text is a sequence of lines, a line a sequence of characters and words
\* strconv.Itoa
Digit(n) == <<"0", "1", "2", "3", "4", "5", "6", "7", "8", "9">>[n + 1]

RECURSIVE Itoa(_)
Itoa(n) == IF n < 10 THEN <<Digit(n)>> ELSE Itoa(n \div 10) \o <<Digit(n % 10)>>

\* the parts joined with nothing between them
RECURSIVE SectionNumberDigits(_)
SectionNumberDigits(s) ==
    IF s = <<>> THEN <<>> ELSE Itoa(Head(s)) \o SectionNumberDigits(Tail(s))

\* SectionNumber.String: the parts joined with "."
RECURSIVE SectionNumberString(_)
SectionNumberString(s) ==
    IF s = <<>> THEN <<>>
    ELSE IF Len(s) = 1 THEN Itoa(s[1])
    ELSE Itoa(Head(s)) \o <<".">> \o SectionNumberString(Tail(s))

Hashes(n) == [i \in 1..n |-> "#"]

BlankLine == <<>>

ChapterTitleLine(chapter) ==
    <<"#", " ", "Chapter", " ">> \o Itoa(chapter.Number) \o <<":", " ", chapter.Title>>

SectionHeading(section) ==
    Hashes(section.Level + 1) \o <<" ">> \o SectionNumberString(section.Number)
        \o <<" ", section.Title>>

RECURSIVE SectionBlocks(_)
SectionBlocks(sections) ==
    IF sections = <<>> THEN <<>>
    ELSE <<SectionHeading(Head(sections)), BlankLine, <<Head(sections).Content>>, BlankLine>>
             \o SectionBlocks(Tail(sections))

\* the markdown of a chapter: title line, blank line, one block per section
RebuildText(chapter) ==
    <<ChapterTitleLine(chapter), BlankLine>> \o SectionBlocks(chapter.Sections)

\* a write that opens chapter.md for appending
AppendChapterContent(d, chapterNumber, content) ==
    [d EXCEPT ![chapterNumber].HasContent = TRUE, ![chapterNumber].Content = @ \o content]

\* FileSystemStorage.SaveChapterContent: os.WriteFile replaces the file
SaveChapterContent(d, chapterNumber, content) ==
    [d EXCEPT ![chapterNumber].HasContent = TRUE, ![chapterNumber].Content = content]

\* what RebuildChapterMarkdown does to the chapter directories
rebuildChapter(d, chapterNum) ==
    IF chapterNum \notin DOMAIN d THEN [ok |-> FALSE, dirs |-> d]
    ELSE [ok |-> TRUE, dirs |-> SaveChapterContent(d, chapterNum, RebuildText(d[chapterNum]))]

\* Manager.RebuildChapterMarkdown
RebuildChapterMarkdown(chapterNum) ==
    LET r == rebuildChapter(dirs, chapterNum)
    IN  /\ dirs' = r.dirs
        /\ UNCHANGED <<manifest, counts, others>>
        /\ last' = Call("RebuildChapterMarkdown", r.ok, chapterNum, 0, 0, 0, <<>>)

\* ------------------------------------------------------------------ export
\* a rebuild loop that goes on to the next chapter whatever the rebuild returned
continueAlways(ok) == TRUE

\* the rebuild loop of ExportDocument goes on only if rebuildFunc returned nil
continueAfterRebuild(ok) == ok

\* Exporter.ValidateDocument: every chapter of the manifest has a chapter.md
\* (the manifest file exists; pandocFound is findPandocPath)
ValidateDocument(d, chapters, pandocFound) ==
    /\ pandocFound
    /\ \A i \in 1..Len(chapters) :
          chapters[i].Number \in DOMAIN d /\ d[chapters[i].Number].HasContent

ExportFailed(error) == [export EXCEPT !.phase = "failed", !.error = error]

\* handleExportDocument: the manifest is loaded and ExportDocument is called
\* with Manager.RebuildChapterMarkdown as rebuildFunc
ExportStart ==
    /\ export.phase \in {"idle", "done", "failed"}
    /\ export' = [NoExport EXCEPT !.phase = "rebuilding", !.call = "ExportDocument",
                                  !.chapters = manifest]
    /\ UNCHANGED <<manifest, counts, dirs, titlesUsed, last, documents, calls>>

\* one turn of the rebuild loop; ioError is a failed write of chapter.md
ExportRebuild ==
    /\ export.phase = "rebuilding"
    /\ export.next <= Len(export.chapters)
    /\ \E ioError \in BOOLEAN :
          LET chapterNum == export.chapters[export.next].Number
              r == rebuildChapter(dirs, chapterNum)
              ok == r.ok /\ ~ioError
          IN  /\ dirs' = IF ok THEN r.dirs ELSE dirs
              /\ IF continueAfterRebuild(ok)
                 THEN /\ export' = [export EXCEPT
                                       !.next = @ + 1,
                                       !.rebuilt = IF ok THEN Append(@, chapterNum) ELSE @]
                      /\ UNCHANGED last
                 ELSE /\ export' = ExportFailed("rebuild")
                      /\ last' = Call("ExportDocument", FALSE, chapterNum, 0, 0, 0, <<>>)
    /\ UNCHANGED <<manifest, counts, titlesUsed, documents, calls>>

\* after the loop: ValidateDocument
ExportValidate ==
    /\ export.phase = "rebuilding"
    /\ export.next > Len(export.chapters)
    /\ \E pandocFound \in BOOLEAN :
          IF ValidateDocument(dirs, export.chapters, pandocFound)
          THEN /\ export' = [export EXCEPT !.phase = "generating", !.validated = TRUE]
               /\ UNCHANGED last
          ELSE /\ export' = [ExportFailed("validation") EXCEPT !.validated = TRUE]
               /\ last' = Call("ExportDocument", FALSE, 0, 0, 0, 0, <<>>)
    /\ UNCHANGED <<manifest, counts, dirs, titlesUsed, documents, calls>>

\* Exporter.GenerateMarkdown over all chapters: every chapter.md is read
ExportGenerate ==
    /\ export.phase = "generating"
    /\ IF \A i \in 1..Len(export.chapters) :
             /\ export.chapters[i].Number \in DOMAIN dirs
             /\ dirs[export.chapters[i].Number].HasContent
       THEN /\ export' = [export EXCEPT !.phase = "starting", !.generated = TRUE]
            /\ UNCHANGED last
       ELSE /\ export' = [ExportFailed("markdown") EXCEPT !.generated = TRUE]
            /\ last' = Call("ExportDocument", FALSE, 0, 0, 0, 0, <<>>)
    /\ UNCHANGED <<manifest, counts, dirs, titlesUsed, documents, calls>>

\* cmd.Start of the pandoc command
ExportRun ==
    /\ export.phase = "starting"
    /\ \E startOk \in BOOLEAN :
          IF startOk
          THEN /\ export' = [export EXCEPT !.phase = "running", !.started = TRUE,
                                            !.process = "running"]
               /\ UNCHANGED last
          ELSE /\ export' = ExportFailed("pandoc")
               /\ last' = Call("ExportDocument", FALSE, 0, 0, 0, 0, <<>>)
    /\ UNCHANGED <<manifest, counts, dirs, titlesUsed, documents, calls>>

\* the pandoc process ends by itself, with exit status 0 or not; nothing
\* makes it end
PandocExit ==
    /\ export.process = "running"
    /\ \E status \in {"exited", "failed"} :
          export' = [export EXCEPT !.process = status]
    /\ UNCHANGED <<manifest, counts, dirs, titlesUsed, last, documents, calls>>

\* config.ExportTimeout has passed since context.WithTimeout: ctx.Done is closed
TimerExpires ==
    /\ export.phase = "running"
    /\ ~export.expired
    /\ export' = [export EXCEPT !.expired = TRUE]
    /\ UNCHANGED <<manifest, counts, dirs, titlesUsed, last, documents, calls>>

\* the select of ExportDocument on done and ctx.Done: done is ready once
\* cmd.Wait returned, ctx.Done once the deadline passed; on a timeout the
\* process is killed; after a clean exit the output file is looked up
ExportReturn ==
    /\ export.phase = "running"
    /\ export.call = "ExportDocument"
    /\ \/ /\ export.process = "exited"
          /\ \E created \in BOOLEAN :
                IF created
                THEN /\ export' = [export EXCEPT !.phase = "done"]
                     /\ last' = Call("ExportDocument", TRUE, 0, 0, 0, 0, <<>>)
                ELSE /\ export' = ExportFailed("output")
                     /\ last' = Call("ExportDocument", FALSE, 0, 0, 0, 0, <<>>)
       \/ /\ export.process = "failed"
          /\ export' = ExportFailed("pandoc")
          /\ last' = Call("ExportDocument", FALSE, 0, 0, 0, 0, <<>>)
       \/ /\ export.expired
          /\ export' = [ExportFailed("timeout") EXCEPT !.process = "killed"]
          /\ last' = Call("ExportDocument", FALSE, 0, 0, 0, 0, <<>>)
    /\ UNCHANGED <<manifest, counts, dirs, titlesUsed, documents, calls>>

\* Exporter.PreviewChapter up to cmd.Run: the chapter is rebuilt, chapter.md
\* is read, pandoc is looked up, the context with the deadline is made and
\* the process is started with exec.Command
PreviewStart(chapterNum) ==
    /\ export.phase \in {"idle", "done", "failed"}
    /\ \E pandocFound \in BOOLEAN, startOk \in BOOLEAN :
          LET r == rebuildChapter(dirs, chapterNum)
              call == [NoExport EXCEPT !.call = "PreviewChapter"]
              failed(error) ==
                  /\ export' = [call EXCEPT !.phase = "failed", !.error = error]
                  /\ last' = Call("PreviewChapter", FALSE, chapterNum, 0, 0, 0, <<>>)
          IN  /\ dirs' = r.dirs
              /\ IF ~r.ok THEN failed("rebuild")
                 ELSE IF ~pandocFound \/ ~startOk THEN failed("pandoc")
                 ELSE /\ export' = [call EXCEPT !.phase = "running",
                                                !.rebuilt = <<chapterNum>>,
                                                !.process = "running"]
                      /\ UNCHANGED last
    /\ UNCHANGED <<manifest, counts, titlesUsed, documents, calls>>

\* PreviewChapter after cmd.Run: cmd.Run returns when the process has ended;
\* only then does the select with a default branch look at ctx.Done
PreviewReturn ==
    /\ export.phase = "running"
    /\ export.call = "PreviewChapter"
    /\ export.process \in {"exited", "failed"}
    /\ IF export.process = "failed"
       THEN /\ export' = ExportFailed("pandoc")
            /\ last' = Call("PreviewChapter", FALSE, export.rebuilt[1], 0, 0, 0, <<>>)
       ELSE IF export.expired
       THEN /\ export' = ExportFailed("timeout")
            /\ last' = Call("PreviewChapter", FALSE, export.rebuilt[1], 0, 0, 0, <<>>)
       ELSE /\ export' = [export EXCEPT !.phase = "done"]
            /\ last' = Call("PreviewChapter", TRUE, export.rebuilt[1], 0, 0, 0, <<>>)
    /\ UNCHANGED <<manifest, counts, dirs, titlesUsed, documents, calls>>

\* --------------------------------------------------------------- documents
\* types.Document as CreateDocumentStructure stores it: the directory with
\* an empty chapters directory and a manifest that lists no chapter
NewDocument == [manifest |-> <<>>, counts |-> <<>>, dirs |-> <<>>]

\* FileSystemStorage.DocumentExists
DocumentExists(documentID) == documentID \in DOMAIN documents

\* FileSystemStorage.ListDocuments: the directories that hold a manifest
ListDocuments == DOMAIN documents

\* a limit check that lets one document more through
checkDocumentLimitAbove == Cardinality(ListDocuments) > MaxDocuments

\* Manager.checkDocumentLimit: TRUE is the "maximum number reached" error
checkDocumentLimit == Cardinality(ListDocuments) >= MaxDocuments

\* a loader that reads a missing manifest.yaml as a manifest without chapters
LoadManifestOrEmpty(documentID) ==
    IF documentID \notin DOMAIN documents
    THEN [ok |-> TRUE, doc |-> NewDocument]
    ELSE [ok |-> TRUE, doc |-> documents[documentID]]

\* FileSystemStorage.LoadManifest: opening a missing file is an error
LoadManifest(documentID) ==
    IF documentID \notin DOMAIN documents
    THEN [ok |-> FALSE]
    ELSE [ok |-> TRUE, doc |-> documents[documentID]]

\* a removal that clears the whole root directory
RemoveEveryDocument(documentID) == NoDocuments

\* FileSystemStorage.DeleteDocument: os.RemoveAll of the document directory
RemoveAll(documentID) == Without(documents, documentID)

\* a call addressed to a document of the root directory, and its result
DocCall(op, ok, documentID, ch) ==
    Call(op, ok, ch, 0, 0, 0, <<>>) @@ [doc |-> documentID]

\* Manager.CreateDocument; documentID is what generateDocumentID made of the
\* title and the clock
CreateDocument(title, author, documentID) ==
    /\ UNCHANGED <<manifest, counts, dirs, export, calls>>
    /\ IF title = "" \/ author = "" \/ DocumentExists(documentID) \/ checkDocumentLimit
       THEN /\ UNCHANGED documents
            /\ last' = [DocCall("CreateDocument", FALSE, documentID, 0) EXCEPT !.text = title]
       ELSE /\ documents' = (documentID :> NewDocument) @@ documents
            /\ last' = [DocCall("CreateDocument", TRUE, documentID, 0) EXCEPT !.text = title]

\* Manager.DeleteDocument
DeleteDocument(documentID) ==
    /\ UNCHANGED <<manifest, counts, dirs, export, calls>>
    /\ IF ~DocumentExists(documentID)
       THEN /\ UNCHANGED documents
            /\ last' = DocCall("DeleteDocument", FALSE, documentID, 0)
       ELSE /\ documents' = RemoveAll(documentID)
            /\ last' = DocCall("DeleteDocument", TRUE, documentID, 0)

\* Manager.AddChapter on a document of the root directory
AddChapterTo(documentID, title, hasPos, position) ==
    /\ UNCHANGED <<manifest, counts, dirs, export, calls>>
    /\ LET loaded == LoadManifest(documentID)
       IN  IF title = "" \/ ~loaded.ok
           THEN /\ UNCHANGED documents
                /\ last' = DocCall("AddChapter", FALSE, documentID, 0)
           ELSE LET doc == loaded.doc
                    chapterNum == IF hasPos THEN position ELSE Len(doc.manifest) + 1
                    r == IF hasPos THEN renumberChapters(doc.dirs, doc.manifest, chapterNum, 1, 0)
                         ELSE [dirs |-> doc.dirs, ok |-> TRUE]
                    chapter == NewChapter(chapterNum, title)
                IN  IF ~r.ok
                    THEN /\ documents' = (documentID :> [doc EXCEPT !.dirs = r.dirs]) @@ documents
                         /\ last' = DocCall("AddChapter", FALSE, documentID, 0)
                    ELSE /\ documents' =
                               (documentID :>
                                   [manifest |-> Append(doc.manifest, ManifestEntry(chapter)),
                                    counts |-> (chapterNum :> ZeroCount) @@ doc.counts,
                                    dirs |-> CreateChapterStructure(r.dirs, chapter)])
                               @@ documents
                         /\ last' = DocCall("AddChapter", TRUE, documentID, chapterNum)

\* Manager.GetChapter on a document of the root directory
GetChapterFrom(documentID, chapterNum) ==
    IF documentID \notin DOMAIN documents THEN [ok |-> FALSE]
    ELSE LET d == documents[documentID].dirs
         IN  IF chapterNum \notin DOMAIN d THEN [ok |-> FALSE]
             ELSE IF ~d[chapterNum].HasContent THEN [ok |-> FALSE]
             ELSE [ok |-> TRUE, chapter |-> d[chapterNum]]

\* a GetChapter call: it reads and leaves everything as it is
ReadChapter(documentID, chapterNum) ==
    /\ UNCHANGED <<manifest, counts, dirs, documents, export, calls>>
    /\ last' = DocCall("GetChapter", GetChapterFrom(documentID, chapterNum).ok,
                       documentID, chapterNum)

\* ------------------------------------------------------------ specification
StoredNumbers(chapterNum) ==
    IF chapterNum \in DOMAIN dirs
    THEN {dirs[chapterNum].Sections[i].Number : i \in 1..Len(dirs[chapterNum].Sections)}
    ELSE {}

RECURSIVE SumOver(_, _)
SumOver(S, f) ==
    IF S = {} THEN 0
    ELSE LET x == CHOOSE y \in S : TRUE IN f[x] + SumOver(S \ {x}, f)

\* sections stored in all chapter directories together
TotalSections == SumOver(DOMAIN dirs, [k \in DOMAIN dirs |-> Len(dirs[k].Sections)])

\* a section number no chapter stores, for a DeleteSection that finds nothing
MissingNumber(chapterNum) == <<chapterNum>>

StepAddChapterAppend(cap) ==
    /\ titlesUsed < cap
    /\ titlesUsed' = titlesUsed + 1
    /\ AddChapter(TitleOf(titlesUsed + 1), FALSE, 0)

StepAddChapterAt(cap) ==
    \E position \in 1..(Len(manifest) + 1) :
        /\ titlesUsed < cap
        /\ titlesUsed' = titlesUsed + 1
        /\ AddChapter(TitleOf(titlesUsed + 1), TRUE, position)

StepDeleteChapter(cap) ==
    \E chapterNum \in 1..(cap + 1) :
        /\ DeleteChapter(chapterNum)
        /\ UNCHANGED titlesUsed

StepMoveChapter(cap) ==
    \E fromPos \in 1..cap, toPos \in 1..cap :
        /\ MoveChapter(fromPos, toPos)
        /\ UNCHANGED titlesUsed

\* ---- Spec: the whole document, chapters holding sections
DocAddChapterAppend == StepAddChapterAppend(MaxDocTitles)

DocAddChapterAt == StepAddChapterAt(MaxDocTitles)

DocDeleteChapter == StepDeleteChapter(MaxDocTitles)

DocMoveChapter == StepMoveChapter(MaxDocTitles)

DocAddSection ==
    \E chapterNum \in 1..(MaxDocTitles + 1), level \in MinLevel..MaxDocLevel :
        /\ TotalSections < MaxDocSections
        /\ AddSection(chapterNum, SectionTitle, SectionContent, level)
        /\ UNCHANGED titlesUsed

DocDeleteSection ==
    \E chapterNum \in 1..(MaxDocTitles + 1) :
        \E sectionNum \in StoredNumbers(chapterNum) \cup {MissingNumber(chapterNum)} :
            /\ DeleteSection(chapterNum, sectionNum)
            /\ UNCHANGED titlesUsed

Next ==
    \/ DocAddChapterAppend
    \/ DocAddChapterAt
    \/ DocDeleteChapter
    \/ DocMoveChapter
    \/ DocAddSection
    \/ DocDeleteSection

Spec == Init /\ [][Next]_vars

\* ---- SpecCh: chapter operations on a document without sections
ChAddChapterAppend == StepAddChapterAppend(MaxTitles)

ChAddChapterAt == StepAddChapterAt(MaxTitles)

ChDeleteChapter == StepDeleteChapter(MaxTitles)

ChMoveChapter == StepMoveChapter(MaxTitles)

NextCh ==
    \/ ChAddChapterAppend
    \/ ChAddChapterAt
    \/ ChDeleteChapter
    \/ ChMoveChapter

SpecCh == Init /\ [][NextCh]_vars

\* ---- SpecSec: section operations on the newest chapter of a document that
\* was built by appending chapters
RECURSIVE Appended(_)
Appended(n) ==
    IF n = 0 THEN <<>>
    ELSE Append(Appended(n - 1), ManifestEntry(NewChapter(n, TitleOf(n))))

InitSec ==
    \E n \in 1..MaxSecChapters :
        /\ manifest = Appended(n)
        /\ counts = [k \in 1..n |-> ZeroCount]
        /\ dirs = [k \in 1..n |-> NewChapter(k, TitleOf(k))]
        /\ titlesUsed = n
        /\ documents = NoDocuments
        /\ export = NoExport
        /\ calls = NoCalls
        /\ last = Call("AddChapter", TRUE, n, 0, 0, 0, <<>>)

SecAddSection ==
    \E level \in MinLevel..MaxSecLevel :
        /\ level <= MaxLevel
        /\ Len(dirs[Len(manifest)].Sections) < MaxSecDeep
        /\ AddSection(Len(manifest), SectionTitle, SectionContent, level)
        /\ UNCHANGED titlesUsed

SecDeleteSection ==
    \E sectionNum \in StoredNumbers(Len(manifest)) \cup {MissingNumber(Len(manifest))} :
        /\ DeleteSection(Len(manifest), sectionNum)
        /\ UNCHANGED titlesUsed

NextSec ==
    \/ SecAddSection
    \/ SecDeleteSection

SpecSec == InitSec /\ [][NextSec]_vars

\* ---- SpecAdd: AddSection calls only, on a chapter that starts without sections
NextAdd == SecAddSection

SpecAdd == InitSec /\ [][NextAdd]_vars

\* ---- SpecMut: every chapter, section and image mutation on one document
StoredFigureIDs(chapterNum) ==
    IF chapterNum \in DOMAIN dirs
    THEN {dirs[chapterNum].Figures[i].ID : i \in 1..Len(dirs[chapterNum].Figures)}
    ELSE {}

AllFigureIDs == UNION {StoredFigureIDs(k) : k \in DOMAIN dirs}

\* figures stored in all chapter directories together
TotalFigures == SumOver(DOMAIN dirs, [k \in DOMAIN dirs |-> Len(dirs[k].Figures)])

\* a figure ID no chapter stores, for an image call that finds nothing
MissingFigureID == GenerateFigureID(1, 0)

\* the values the caller passes to the update calls and to AddImage
NewTitle == "T"
NewContent == "y"
Caption == "c"
NewCaption == "d"

MutAddChapterAppend == StepAddChapterAppend(MaxMutTitles)

MutAddChapterAt == StepAddChapterAt(MaxMutTitles)

MutDeleteChapter == StepDeleteChapter(MaxMutTitles)

MutMoveChapter == StepMoveChapter(MaxMutTitles)

MutAddSection ==
    \E chapterNum \in 1..(MaxMutTitles + 1) :
        /\ TotalSections < MaxMutSections
        /\ AddSection(chapterNum, SectionTitle, SectionContent, MinLevel)
        /\ UNCHANGED titlesUsed

MutUpdateSection ==
    \E chapterNum \in 1..(MaxMutTitles + 1) :
        \E sectionNum \in StoredNumbers(chapterNum) \cup {MissingNumber(chapterNum)} :
            /\ UpdateSection(chapterNum, sectionNum, NewContent)
            /\ UNCHANGED titlesUsed

MutDeleteSection ==
    \E chapterNum \in 1..(MaxMutTitles + 1) :
        \E sectionNum \in StoredNumbers(chapterNum) \cup {MissingNumber(chapterNum)} :
            /\ DeleteSection(chapterNum, sectionNum)
            /\ UNCHANGED titlesUsed

MutAddImage ==
    \E chapterNum \in 1..(MaxMutTitles + 1) :
        /\ TotalFigures < MaxMutFigures
        /\ AddImage(chapterNum, Caption)
        /\ UNCHANGED titlesUsed

MutUpdateImageCaption ==
    \E figureID \in AllFigureIDs \cup {MissingFigureID} :
        /\ UpdateImageCaption(figureID, NewCaption)
        /\ UNCHANGED titlesUsed

MutDeleteImage ==
    \E figureID \in AllFigureIDs \cup {MissingFigureID} :
        /\ DeleteImage(figureID)
        /\ UNCHANGED titlesUsed

MutUpdateChapterMetadata ==
    \E chapterNum \in 1..(MaxMutTitles + 1) :
        /\ UpdateChapterMetadata(chapterNum, NewTitle)
        /\ UNCHANGED titlesUsed

NextMut ==
    \/ MutAddChapterAppend
    \/ MutAddChapterAt
    \/ MutDeleteChapter
    \/ MutMoveChapter
    \/ MutAddSection
    \/ MutUpdateSection
    \/ MutDeleteSection
    \/ MutAddImage
    \/ MutUpdateImageCaption
    \/ MutDeleteImage
    \/ MutUpdateChapterMetadata

SpecMut == Init /\ [][NextMut]_vars

\* ---- SpecDel: DeleteSection on a chapter whose metadata.yaml lists any
\* sections with pairwise distinct numbers, in ascending order
DelNumbers ==
    {<<1, a>> : a \in 1..MaxDelValue}
        \cup {<<1, a, b>> : a \in 1..MaxDelValue, b \in 1..MaxDelValue}

\* a comes before b in document order
LexLess(a, b) ==
    \/ \E i \in 1..Len(a) :
          /\ i <= Len(b)
          /\ a[i] < b[i]
          /\ SubSeq(a, 1, i - 1) = SubSeq(b, 1, i - 1)
    \/ Len(a) < Len(b) /\ a = SubSeq(b, 1, Len(a))

RECURSIVE InOrder(_)
InOrder(S) ==
    IF S = {} THEN <<>>
    ELSE LET m == CHOOSE x \in S : \A y \in S : x = y \/ LexLess(x, y)
         IN  <<NewSection(m, Len(m) - 1)>> \o InOrder(S \ {m})

InitDel ==
    \E S \in SUBSET DelNumbers :
        /\ Cardinality(S) <= MaxDelSections
        /\ manifest = Appended(1)
        /\ counts = [k \in {1} |-> ZeroCount]
        /\ dirs = [k \in {1} |-> [NewChapter(1, TitleOf(1)) EXCEPT !.Sections = InOrder(S)]]
        /\ titlesUsed = 1
        /\ documents = NoDocuments
        /\ export = NoExport
        /\ calls = NoCalls
        /\ last = Call("AddChapter", TRUE, 1, 0, 0, 0, <<>>)

DelDeleteSection ==
    \E sectionNum \in StoredNumbers(1) \cup {MissingNumber(1)} :
        /\ DeleteSection(1, sectionNum)
        /\ UNCHANGED titlesUsed

NextDel == DelDeleteSection

SpecDel == InitDel /\ [][NextDel]_vars

\* ---- SpecUpd: UpdateSection on a chapter whose metadata.yaml lists any
\* sections with pairwise distinct numbers, in ascending order
UpdNumbers ==
    {<<1, a>> : a \in 1..MaxUpdValue}
        \cup {<<1, a, b>> : a \in 1..MaxUpdValue, b \in 1..MaxUpdValue}

InitUpd ==
    \E S \in SUBSET UpdNumbers :
        /\ Cardinality(S) <= MaxUpdSections
        /\ manifest = Appended(1)
        /\ counts = [k \in {1} |-> ZeroCount]
        /\ dirs = [k \in {1} |-> [NewChapter(1, TitleOf(1)) EXCEPT !.Sections = InOrder(S)]]
        /\ titlesUsed = 1
        /\ documents = NoDocuments
        /\ export = NoExport
        /\ calls = NoCalls
        /\ last = Call("AddChapter", TRUE, 1, 0, 0, 0, <<>>)

UpdUpdateSection ==
    \E sectionNum \in StoredNumbers(1) \cup {MissingNumber(1)} :
        \E content \in {SectionContent, NewContent} :
            /\ UpdateSection(1, sectionNum, content)
            /\ UNCHANGED titlesUsed

NextUpd == UpdUpdateSection

SpecUpd == InitUpd /\ [][NextUpd]_vars

\* ---- SpecImg: image operations on the newest chapter of a document that
\* was built by appending chapters; the chapter starts without figures
ImgAddImage ==
    \E caption \in {Caption, NewCaption} :
        /\ Len(dirs[Len(manifest)].Figures) < MaxImgFigures
        /\ AddImage(Len(manifest), caption)
        /\ UNCHANGED titlesUsed

ImgDeleteImage ==
    \E figureID \in StoredFigureIDs(Len(manifest)) \cup {GenerateFigureID(Len(manifest), 0)} :
        /\ DeleteImage(figureID)
        /\ UNCHANGED titlesUsed

NextImg ==
    \/ ImgAddImage
    \/ ImgDeleteImage

SpecImg == InitSec /\ [][NextImg]_vars

\* ---- SpecGap: AddImage on a chapter whose metadata.yaml lists figures with
\* any ascending sequence numbers, gaps included
RECURSIVE FiguresOf(_)
FiguresOf(S) ==
    IF S = {} THEN <<>>
    ELSE LET m == CHOOSE x \in S : \A y \in S : x <= y
         IN  <<NewFigure(1, m, Caption)>> \o FiguresOf(S \ {m})

InitGap ==
    \E S \in SUBSET (1..MaxGapSequence) :
        /\ manifest = Appended(1)
        /\ counts = [k \in {1} |-> ZeroCount]
        /\ dirs = [k \in {1} |-> [NewChapter(1, TitleOf(1)) EXCEPT !.Figures = FiguresOf(S)]]
        /\ titlesUsed = 1
        /\ documents = NoDocuments
        /\ export = NoExport
        /\ calls = NoCalls
        /\ last = Call("AddChapter", TRUE, 1, 0, 0, 0, <<>>)

GapAddImage ==
    \E caption \in {Caption, NewCaption} :
        /\ Len(dirs[1].Figures) < MaxGapFigures
        /\ AddImage(1, caption)
        /\ UNCHANGED titlesUsed

NextGap == GapAddImage

SpecGap == InitGap /\ [][NextGap]_vars

\* ---- SpecApp: AddChapter without a position on a new document, with any
\* of the titles, the empty one included
AppTitles == {"A", "B"}

AppAddChapter ==
    \E title \in AppTitles :
        /\ titlesUsed < MaxAppends
        /\ titlesUsed' = titlesUsed + 1
        /\ AddChapter(title, FALSE, 0)

AppAddChapterNoTitle ==
    /\ AddChapter("", FALSE, 0)
    /\ UNCHANGED titlesUsed

NextApp ==
    \/ AppAddChapter
    \/ AppAddChapterNoTitle

SpecApp == Init /\ [][NextApp]_vars

\* ---- SpecLib: documents created in and deleted from the root directory,
\* chapters added to them
DocumentIDs == 1..(MaxDocuments + 1)

DocTitle == "D"
Author == "a"

LibCreateDocument ==
    \E documentID \in DocumentIDs, title \in {DocTitle, ""} :
        /\ CreateDocument(title, Author, documentID)
        /\ UNCHANGED titlesUsed

LibDeleteDocument ==
    \E documentID \in DocumentIDs :
        /\ DeleteDocument(documentID)
        /\ UNCHANGED titlesUsed

LibAddChapter ==
    \E documentID \in DocumentIDs, hasPos \in BOOLEAN :
        /\ DocumentExists(documentID) =>
               Len(documents[documentID].manifest) < MaxLibChapters
        /\ AddChapterTo(documentID, DocTitle, hasPos, 1)
        /\ UNCHANGED titlesUsed

LibReadChapter ==
    \E documentID \in DocumentIDs, chapterNum \in 1..(MaxLibChapters + 1) :
        /\ ReadChapter(documentID, chapterNum)
        /\ UNCHANGED titlesUsed

NextLib ==
    \/ LibCreateDocument
    \/ LibDeleteDocument
    \/ LibAddChapter
    \/ LibReadChapter

SpecLib == Init /\ [][NextLib]_vars

\* ---- SpecVal: AddSection with any title, content and level, on a document
\* that was built by appending chapters
ValAddSection ==
    \E chapterNum \in 1..(MaxSecChapters + 1), title \in {SectionTitle, ""},
       content \in {SectionContent, ""}, level \in (MinLevel - 1)..(MaxLevel + 1) :
        /\ TotalSections < MaxValSections
        /\ AddSection(chapterNum, title, content, level)
        /\ UNCHANGED titlesUsed

NextVal == ValAddSection

SpecVal == InitSec /\ [][NextVal]_vars

\* ---- SpecPos: add_chapter and move_chapter tool calls with any position,
\* zero, negative and beyond the end included
PosAddChapter ==
    \E position \in (0 - 1)..(Len(manifest) + 2) :
        /\ titlesUsed < MaxPosTitles
        /\ titlesUsed' = titlesUsed + 1
        /\ AddChapter(TitleOf(titlesUsed + 1), TRUE, position)

PosAddChapterAppend == StepAddChapterAppend(MaxPosTitles)

PosMoveChapter ==
    \E fromPos \in (0 - 1)..(MaxPosTitles + 1), toPos \in (0 - 1)..(MaxPosTitles + 1) :
        /\ handleMoveChapter(fromPos, toPos)
        /\ UNCHANGED titlesUsed

NextPos ==
    \/ PosAddChapter
    \/ PosAddChapterAppend
    \/ PosMoveChapter

SpecPos == Init /\ [][NextPos]_vars

\* ---- SpecReb: sections added to and updated in the newest chapter of a
\* document that was built by appending chapters, and chapters rebuilt
RebAddSection ==
    \E level \in MinLevel..MaxRebLevel :
        /\ Len(dirs[Len(manifest)].Sections) < MaxRebSections
        /\ AddSection(Len(manifest), SectionTitle, SectionContent, level)
        /\ UNCHANGED titlesUsed

RebUpdateSection ==
    \E sectionNum \in StoredNumbers(Len(manifest)) :
        /\ UpdateSection(Len(manifest), sectionNum, NewContent)
        /\ UNCHANGED titlesUsed

RebRebuild ==
    \E chapterNum \in {Len(manifest), Len(manifest) + 1} :
        /\ RebuildChapterMarkdown(chapterNum)
        /\ UNCHANGED titlesUsed

NextReb ==
    \/ RebAddSection
    \/ RebUpdateSection
    \/ RebRebuild

SpecReb == InitSec /\ [][NextReb]_vars

\* ---- SpecExp: export_document calls on a document that was built by
\* appending chapters; a section is added between exports
ExpAddSection ==
    /\ export.phase \in {"idle", "done", "failed"}
    /\ Len(dirs[Len(manifest)].Sections) < MaxExpSections
    /\ AddSection(Len(manifest), SectionTitle, SectionContent, MinLevel)
    /\ UNCHANGED titlesUsed

NextExp ==
    \/ ExpAddSection
    \/ ExportStart
    \/ ExportRebuild
    \/ ExportValidate
    \/ ExportGenerate
    \/ ExportRun
    \/ PandocExit
    \/ TimerExpires
    \/ ExportReturn

SpecExp == InitSec /\ [][NextExp]_vars

\* ---- SpecTime: export_document and preview_chapter calls whose pandoc
\* process may never end. Time passes, so the deadline of a running call
\* expires, and a call whose next statement can run does run it; an external
\* process is under no obligation to end.
TimePreviewChapter ==
    \E chapterNum \in 1..(Len(manifest) + 1) : PreviewStart(chapterNum)

NextTime ==
    \/ ExportStart
    \/ ExportRebuild
    \/ ExportValidate
    \/ ExportGenerate
    \/ ExportRun
    \/ PandocExit
    \/ TimerExpires
    \/ ExportReturn
    \/ TimePreviewChapter
    \/ PreviewReturn

SpecTime ==
    /\ InitSec
    /\ [][NextTime]_vars
    /\ WF_vars(TimerExpires)
    /\ WF_vars(ExportReturn)
    /\ WF_vars(PreviewReturn)

\* ---- SpecErr: every mutation of SpecMut on one document, and calls
\* addressed to documents the root directory does not hold
ErrAddChapter ==
    \E documentID \in DocumentIDs :
        /\ ~DocumentExists(documentID)
        /\ AddChapterTo(documentID, NewTitle, FALSE, 0)
        /\ UNCHANGED titlesUsed

ErrReadChapter ==
    \E documentID \in DocumentIDs :
        /\ ~DocumentExists(documentID)
        /\ ReadChapter(documentID, 1)
        /\ UNCHANGED titlesUsed

NextErr ==
    \/ NextMut
    \/ ErrAddChapter
    \/ ErrReadChapter

SpecErr == Init /\ [][NextErr]_vars

\* ---- SpecFail: AddChapter with a position and DeleteChapter on a document
\* that was built by appending chapters, on storage where any one os.Rename
\* of a call may return an I/O error
FailAddChapterAt ==
    \E position \in 1..(Len(manifest) + 1), fault \in 0..MaxSecChapters :
        /\ titlesUsed < MaxFailTitles
        /\ titlesUsed' = titlesUsed + 1
        /\ AddChapterOrFault(TitleOf(titlesUsed + 1), TRUE, position, fault)

FailDeleteChapter ==
    \E chapterNum \in 1..(MaxFailTitles + 1), fault \in 0..MaxSecChapters :
        /\ DeleteChapterOrFault(chapterNum, fault)
        /\ UNCHANGED titlesUsed

NextFail ==
    \/ FailAddChapterAt
    \/ FailDeleteChapter

SpecFail == InitSec /\ [][NextFail]_vars

\* ---- SpecRace: two callers issue AddSection calls at the same time on the
\* newest chapter of a document that was built by appending chapters; the
\* statements of their calls interleave in any order, a load and a save each
\* being one step
RaceAddSectionLoad ==
    \E w \in Writers, chapterNum \in {Len(manifest), Len(manifest) + 1},
       title \in {SectionTitle, NewTitle},
       level \in MinLevel..MaxRaceLevel :
        /\ chapterNum \in DOMAIN dirs => Len(dirs[chapterNum].Sections) < MaxRaceSections
        /\ AddSectionLoad(w, chapterNum, title, SectionContent, level)

RaceAddSectionSave == \E w \in Writers : AddSectionSave(w)

NextRace ==
    \/ RaceAddSectionLoad
    \/ RaceAddSectionSave
    \/ NextCalls

SpecRace == InitSec /\ [][NextRace]_vars

\* ---- SpecLvl: AddSection at any level, the levels outside 1..6 included,
\* UpdateSection and DeleteSection on the newest chapter of a document that
\* was built by appending chapters
LvlAddSection ==
    \E level \in (MinLevel - 1)..(MaxLevel + 1) :
        /\ Len(dirs[Len(manifest)].Sections) < MaxLvlSections
        /\ AddSection(Len(manifest), SectionTitle, SectionContent, level)
        /\ UNCHANGED titlesUsed

LvlUpdateSection ==
    \E sectionNum \in StoredNumbers(Len(manifest)) \cup {MissingNumber(Len(manifest))} :
        /\ UpdateSection(Len(manifest), sectionNum, NewContent)
        /\ UNCHANGED titlesUsed

LvlDeleteSection ==
    \E sectionNum \in StoredNumbers(Len(manifest)) \cup {MissingNumber(Len(manifest))} :
        /\ DeleteSection(Len(manifest), sectionNum)
        /\ UNCHANGED titlesUsed

NextLvl ==
    \/ LvlAddSection
    \/ LvlUpdateSection
    \/ LvlDeleteSection

SpecLvl == InitSec /\ [][NextLvl]_vars

\* ================================================================== claims
\* the stored chapter apart from the Number field of its metadata
SameChapter(a, b) ==
    /\ a.Title = b.Title
    /\ a.Sections = b.Sections
    /\ a.Figures = b.Figures
    /\ a.Tables = b.Tables
    /\ a.HasContent = b.HasContent

\* the section numbers stored in a chapter directory, as a set
NumbersOf(chapter) == {chapter.Sections[i].Number : i \in 1..Len(chapter.Sections)}

\* the number the specification asks of AddSection: follow the highest value
\* at every parent position (1 where nothing reaches it), then one more than
\* the highest value present under that parent
RECURSIVE ParentChain(_, _, _)
ParentChain(numbers, prefix, level) ==
    IF Len(prefix) >= level THEN prefix
    ELSE LET under == {n \in numbers : /\ Len(n) > Len(prefix)
                                       /\ SubSeq(n, 1, Len(prefix)) = prefix}
             v == IF under = {} THEN 1 ELSE Max({n[Len(prefix) + 1] : n \in under})
         IN  ParentChain(numbers, Append(prefix, v), level)

\* some stored section reaches every parent position of the chain
RECURSIVE ParentChainExists(_, _, _)
ParentChainExists(numbers, prefix, level) ==
    \/ Len(prefix) >= level
    \/ LET under == {n \in numbers : /\ Len(n) > Len(prefix)
                                      /\ SubSeq(n, 1, Len(prefix)) = prefix}
       IN  /\ under # {}
           /\ ParentChainExists(numbers,
                                Append(prefix, Max({n[Len(prefix) + 1] : n \in under})), level)

ExpectedNextNumber(chapterNum, numbers, level) ==
    LET parent == ParentChain(numbers, <<chapterNum>>, level)
        under == {n \in numbers : Len(n) > level /\ SubSeq(n, 1, level) = parent}
    IN  Append(parent, Max({0} \cup {n[level + 1] : n \in under}) + 1)

\* C1: the chapter numbers of the manifest, read in list order, are 1, 2, ..., N
C1_ChapterNumbersDense ==
    \A i \in 1..Len(manifest) : manifest[i].Number = i

\* C2: starting from a chapter without sections, AddSection calls alone never
\* leave two sections of a chapter with the same number
C2_SectionNumbersDistinct ==
    \A c \in DOMAIN dirs :
        \A i, j \in 1..Len(dirs[c].Sections) :
            i # j => dirs[c].Sections[i].Number # dirs[c].Sections[j].Number

\* C3: AddChapter(title, position = P) with 1 <= P <= N returns P, the new empty
\* chapter is chapter P, every chapter k >= P became chapter k + 1 and every
\* chapter below P is unchanged, in the manifest and in chapter storage
C3_AddChapterAtShiftsUp ==
    [][ (/\ last'.op = "AddChapter"
         /\ last'.hasPos
         /\ last'.pos \in 1..Len(manifest))
        =>
        LET P == last'.pos
            N == Len(manifest)
            new == NewChapter(P, TitleOf(titlesUsed'))
        IN  /\ last'.ok
            /\ last'.ch = P
            /\ Len(manifest') = N + 1
            /\ manifest'[P] = ManifestEntry(new)
            /\ P \in DOMAIN dirs' /\ dirs'[P] = new
            /\ \A k \in 1..N :
                  IF k >= P
                  THEN /\ manifest'[k + 1] = [manifest[k] EXCEPT !.Number = k + 1]
                       /\ k \in DOMAIN dirs /\ (k + 1) \in DOMAIN dirs'
                       /\ SameChapter(dirs'[k + 1], dirs[k])
                  ELSE /\ manifest'[k] = manifest[k]
                       /\ k \in DOMAIN dirs /\ k \in DOMAIN dirs'
                       /\ dirs'[k] = dirs[k]
      ]_vars

\* the old list index of the chapter that stands at index i after moving the
\* chapter at index fromPos to index toPos
MovedFrom(fromPos, toPos, i) ==
    IF i = toPos THEN fromPos
    ELSE LET j == IF i < toPos THEN i ELSE i - 1
         IN  IF j < fromPos THEN j ELSE j + 1

\* C4: MoveChapter(from, to), from # to, both in 1..N, puts chapter `from` at
\* number `to`, keeps the order of the others, and leaves manifest numbers and
\* storage locations 1..N in the new order
C4_MoveChapterRenumbers ==
    [][ (/\ last'.op = "MoveChapter"
         /\ last'.ch \in 1..Len(manifest)
         /\ last'.to \in 1..Len(manifest)
         /\ last'.ch # last'.to)
        =>
        /\ last'.ok
        /\ Len(manifest') = Len(manifest)
        /\ \A i \in 1..Len(manifest) :
              LET old == MovedFrom(last'.ch, last'.to, i)
              IN  /\ manifest'[i] = [manifest[old] EXCEPT !.Number = i]
                  /\ old \in DOMAIN dirs /\ i \in DOMAIN dirs'
                  /\ SameChapter(dirs'[i], dirs[old])
      ]_vars

\* C5: a successful DeleteChapter(n), 1 <= n <= N, leaves N - 1 chapters: the
\* chapters above n moved down by one with title and contents unchanged, the
\* chapters below n untouched, the count entries re-keyed the same way
C5_DeleteChapterShiftsDown ==
    [][ (/\ last'.op = "DeleteChapter"
         /\ last'.ok
         /\ last'.ch \in 1..Len(manifest))
        =>
        LET n == last'.ch
            N == Len(manifest)
        IN  /\ Len(manifest') = N - 1
            /\ Cardinality(DOMAIN dirs') = Cardinality(DOMAIN dirs) - 1
            /\ \A k \in 1..N :
                  IF k > n
                  THEN /\ manifest'[k - 1] = [manifest[k] EXCEPT !.Number = k - 1]
                       /\ k \in DOMAIN dirs /\ (k - 1) \in DOMAIN dirs'
                       /\ SameChapter(dirs'[k - 1], dirs[k])
                  ELSE k < n =>
                       /\ manifest'[k] = manifest[k]
                       /\ k \in DOMAIN dirs /\ k \in DOMAIN dirs'
                       /\ dirs'[k] = dirs[k]
            /\ DOMAIN counts' =
                  {k \in DOMAIN counts : k < n} \cup {k - 1 : k \in {x \in DOMAIN counts : x > n}}
            /\ \A k \in DOMAIN counts :
                  /\ k > n => counts'[k - 1] = counts[k]
                  /\ k < n => counts'[k] = counts[k]
      ]_vars

\* C6: AddSection at level 1 in chapter c returns [c, m + 1], m being the
\* largest top-level value among the chapter's sections, 0 if it has none
C6_LevelOneAppends ==
    [][ (/\ last'.op = "AddSection"
         /\ last'.ok
         /\ last'.lvl = 1)
        =>
        last'.num = <<last'.ch,
                      Max({0} \cup {n[2] : n \in NumbersOf(dirs[last'.ch])}) + 1>>
      ]_vars

\* C7: AddSection at level L >= 2 in a chapter whose sections reach every
\* parent position returns the latest parent chain followed by one more than
\* the highest value already present under that parent
C7_DeeperLevelNestsUnderLatestParent ==
    [][ (/\ last'.op = "AddSection"
         /\ last'.ok
         /\ last'.lvl >= 2
         /\ ParentChainExists(NumbersOf(dirs[last'.ch]), <<last'.ch>>, last'.lvl))
        =>
        last'.num = ExpectedNextNumber(last'.ch, NumbersOf(dirs[last'.ch]), last'.lvl)
      ]_vars

\* C8: in a chapter without sections AddSection at level L returns the chapter
\* number followed by L ones
C8_MissingParentsDefaultToOne ==
    [][ (/\ last'.op = "AddSection"
         /\ last'.ok
         /\ dirs[last'.ch].Sections = <<>>)
        =>
        last'.num = <<last'.ch>> \o [i \in 1..last'.lvl |-> 1]
      ]_vars

\* C9: every stored section number has at least two components, all positive
C9_SectionNumbersPositive ==
    \A c \in DOMAIN dirs :
        \A n \in NumbersOf(dirs[c]) :
            /\ Len(n) >= 2
            /\ \A i \in 1..Len(n) : n[i] >= 1

\* C10: the first component of every section number stored in chapter c is c
C10_SectionsCarryChapterNumber ==
    \A c \in DOMAIN dirs :
        \A n \in NumbersOf(dirs[c]) : n[1] = c

\* the calls that change one chapter's metadata
ChapterMutators ==
    {"AddSection", "UpdateSection", "DeleteSection", "AddImage",
     "UpdateImageCaption", "DeleteImage", "UpdateChapterMetadata"}

\* C11: a successful AddSection, UpdateSection, DeleteSection, AddImage,
\* UpdateImageCaption, DeleteImage or UpdateChapterMetadata addressed to chapter
\* c shows its change in the stored metadata of chapter c and leaves the stored
\* metadata of every other chapter as it was
C11_MutationWritesItsOwnChapter ==
    [][ (/\ last'.op \in ChapterMutators
         /\ last'.ok)
        =>
        LET c == last'.ch
            before == dirs[c]
            after == dirs'[c]
        IN  /\ DOMAIN dirs' = DOMAIN dirs
            /\ \A k \in (DOMAIN dirs) \ {c} : dirs'[k] = dirs[k]
            /\ CASE last'.op = "AddSection" ->
                       /\ Len(after.Sections) = Len(before.Sections) + 1
                       /\ after.Sections[Len(after.Sections)].Number = last'.num
                 [] last'.op = "UpdateSection" ->
                       \E i \in 1..Len(after.Sections) :
                           /\ after.Sections[i].Number = last'.num
                           /\ after.Sections[i].Content = last'.text
                 [] last'.op = "DeleteSection" ->
                       Len(after.Sections) = Len(before.Sections) - 1
                 [] last'.op = "AddImage" ->
                       /\ Len(after.Figures) = Len(before.Figures) + 1
                       /\ after.Figures[Len(after.Figures)].ID = last'.fig
                 [] last'.op = "UpdateImageCaption" ->
                       \E i \in 1..Len(after.Figures) :
                           /\ after.Figures[i].ID = last'.fig
                           /\ after.Figures[i].Caption = last'.text
                 [] last'.op = "DeleteImage" ->
                       Len(after.Figures) = Len(before.Figures) - 1
                 [] last'.op = "UpdateChapterMetadata" ->
                       after.Title = last'.text
      ]_vars

\* C12: for every chapter number n listed in the document, GetChapter(n)
\* succeeds and returns a chapter whose Number field is n
C12_GetChapterReturnsItsNumber ==
    \A i \in 1..Len(manifest) :
        LET n == manifest[i].Number
        IN  /\ GetChapter(n).ok
            /\ GetChapter(n).chapter.Number = n

\* the number the specification asks a remaining section to carry after the
\* section numbered d was deleted: one less at d's level when the section is
\* at least as deep as d, agrees with d above that level and is greater there
AfterDeletion(n, d) ==
    IF /\ Len(n) >= Len(d)
       /\ SubSeq(n, 1, Len(d) - 1) = SubSeq(d, 1, Len(d) - 1)
       /\ n[Len(d)] > d[Len(d)]
    THEN [n EXCEPT ![Len(d)] = @ - 1]
    ELSE n

\* C13: a successful DeleteSection(d) removes exactly one section numbered d,
\* lowers by one the value at d's level of every remaining section that is at
\* least as deep as d, shares d's prefix above that level and is greater
\* there, and keeps every other section, the descendants of d included,
\* with its number, in the same order
C13_DeleteSectionRenumbersSiblings ==
    [][ (/\ last'.op = "DeleteSection"
         /\ last'.ok)
        =>
        LET d == last'.num
            before == dirs[last'.ch].Sections
            after == dirs'[last'.ch].Sections
        IN  \E i \in 1..Len(before) :
               /\ before[i].Number = d
               /\ after = [j \in 1..(Len(before) - 1) |->
                              LET old == RemoveAt(before, i)[j]
                              IN  [old EXCEPT !.Number = AfterDeletion(old.Number, d)]]
      ]_vars

\* C13 witness: deleting 1.2 from [1.1, 1.2, 1.3, 1.3.1] left [1.1, 1.2, 1.2.1]
C13_Witness ==
    /\ last.op = "DeleteSection"
    /\ last.ok
    /\ last.num = <<1, 2>>
    /\ [i \in 1..Len(dirs[1].Sections) |-> dirs[1].Sections[i].Number]
           = << <<1, 1>>, <<1, 2>>, <<1, 2, 1>> >>

\* C14: a successful DeleteSection on a chapter whose section numbers are
\* pairwise distinct leaves them pairwise distinct
C14_DeleteSectionKeepsNumbersDistinct ==
    [][ (/\ last'.op = "DeleteSection"
         /\ last'.ok
         /\ \A i, j \in 1..Len(dirs[last'.ch].Sections) :
               i # j => dirs[last'.ch].Sections[i].Number # dirs[last'.ch].Sections[j].Number)
        =>
        \A i, j \in 1..Len(dirs'[last'.ch].Sections) :
            i # j => dirs'[last'.ch].Sections[i].Number # dirs'[last'.ch].Sections[j].Number
      ]_vars

\* C15: every figure stored in chapter c has Chapter = c and the ID fig-c.s,
\* s being its Sequence
C15_FiguresCarryChapterNumber ==
    \A c \in DOMAIN dirs :
        \A i \in 1..Len(dirs[c].Figures) :
            LET figure == dirs[c].Figures[i]
            IN  /\ figure.Chapter = c
                /\ figure.ID = GenerateFigureID(c, figure.Sequence)

\* C16: in a chapter that started without figures and saw only AddImage and
\* DeleteImage calls, the sequence numbers of the figures in list order are
\* 1, 2, ..., n
C16_FigureSequencesDense ==
    \A c \in DOMAIN dirs :
        \A i \in 1..Len(dirs[c].Figures) : dirs[c].Figures[i].Sequence = i

\* C16 witness: the first of three figures was deleted and two figures remain
C16_Witness ==
    /\ last.op = "DeleteImage"
    /\ last.ok
    /\ last.fig = GenerateFigureID(last.ch, 1)
    /\ Len(dirs[last.ch].Figures) = MaxImgFigures - 1

\* C17: DeleteImage(fig-c.k) on chapter c holding fig-c.1 .. fig-c.n removes
\* that figure, keeps the figures below k as they are, and gives every figure
\* with sequence s > k the sequence s - 1 and the ID fig-c.(s - 1), keeping
\* caption, path and relative order
C17_DeleteImageRenumbers ==
    [][ (/\ last'.op = "DeleteImage"
         /\ last'.ok)
        =>
        LET c == last'.ch
            k == last'.fig[3]
            before == dirs[c].Figures
            after == dirs'[c].Figures
        IN  /\ last'.fig = GenerateFigureID(c, k)
            /\ k \in 1..Len(before)
            /\ Len(after) = Len(before) - 1
            /\ \A s \in 1..Len(before) :
                  /\ s < k => after[s] = before[s]
                  /\ s > k =>
                        /\ after[s - 1].Sequence = s - 1
                        /\ after[s - 1].ID = GenerateFigureID(c, s - 1)
                        /\ after[s - 1].Chapter = before[s].Chapter
                        /\ after[s - 1].Caption = before[s].Caption
                        /\ after[s - 1].ImagePath = before[s].ImagePath
      ]_vars

\* C17 witness: fig-2.2 was deleted from fig-2.1, fig-2.2, fig-2.3 and the
\* chapter holds fig-2.1 and fig-2.2
C17_Witness ==
    /\ last.op = "DeleteImage"
    /\ last.ok
    /\ last.fig = GenerateFigureID(2, 2)
    /\ [i \in 1..Len(dirs[2].Figures) |-> dirs[2].Figures[i].ID]
           = <<GenerateFigureID(2, 1), GenerateFigureID(2, 2)>>

\* C18: AddImage gives the new figure the sequence max(existing) + 1, 1 in a
\* chapter without figures, also when the existing sequences have a gap
C18_AddImageContinuesFromMaximum ==
    [][ (/\ last'.op = "AddImage"
         /\ last'.ok)
        =>
        LET before == dirs[last'.ch].Figures
            after == dirs'[last'.ch].Figures
            next == Max({0} \cup {before[i].Sequence : i \in 1..Len(before)}) + 1
        IN  /\ Len(after) = Len(before) + 1
            /\ after[Len(after)].Sequence = next
            /\ last'.fig = GenerateFigureID(last'.ch, next)
      ]_vars

\* C19: for every chapter c of the manifest the count entry of c equals the
\* number of sections, figures and tables stored in chapter c
C19_CountsMatchChapters ==
    \A i \in 1..Len(manifest) :
        LET c == manifest[i].Number
        IN  /\ c \in DOMAIN counts
            /\ c \in DOMAIN dirs
            /\ counts[c] = [Sections |-> Len(dirs[c].Sections),
                            Figures |-> Len(dirs[c].Figures),
                            Tables |-> Len(dirs[c].Tables)]

\* C20: AddChapter without a position on a manifest of N chapters returns
\* N + 1, stores an empty chapter with the given title that GetChapter loads
\* under that number, appends it to the manifest with a zero count entry and
\* leaves the other chapters alone; an AddChapter with an empty title fails
\* and changes nothing, so the k-th successful append returns k
C20_AppendReturnsNextNumber ==
    [][ (/\ last'.op = "AddChapter"
         /\ ~last'.hasPos)
        =>
        IF last'.ok
        THEN LET N == Len(manifest)
                 new == NewChapter(N + 1, last'.text)
             IN  /\ last'.text # ""
                 /\ last'.ch = N + 1
                 /\ last'.ch = titlesUsed'
                 /\ GetChapter(last.ch)'.ok
                 /\ GetChapter(last.ch)'.chapter = new
                 /\ manifest' = Append(manifest, ManifestEntry(new))
                 /\ DOMAIN counts' = (DOMAIN counts) \cup {N + 1}
                 /\ counts'[N + 1] = ZeroCount
                 /\ \A k \in DOMAIN counts : counts'[k] = counts[k]
                 /\ \A k \in DOMAIN dirs : k \in DOMAIN dirs' /\ dirs'[k] = dirs[k]
        ELSE /\ last'.text = ""
             /\ UNCHANGED <<manifest, counts, dirs, titlesUsed>>
      ]_vars

\* C20 witness: the third append returned 3 and the new chapter loads under
\* that number with the title passed
C20_Witness ==
    /\ last.op = "AddChapter"
    /\ last.ok
    /\ last.ch = 3
    /\ Len(manifest) = 3
    /\ GetChapter(3).ok
    /\ GetChapter(3).chapter.Title = last.text

\* C21: a successful UpdateSection(c, d, content) replaces the content of the
\* section of chapter c numbered d and nothing else: its number, title and
\* level, every other section and the order of the list stay as they were
C21_UpdateSectionChangesContentOnly ==
    [][ (/\ last'.op = "UpdateSection"
         /\ last'.ok)
        =>
        LET before == dirs[last'.ch].Sections
            after == dirs'[last'.ch].Sections
        IN  /\ \E i \in 1..Len(before) :
                  /\ before[i].Number = last'.num
                  /\ after = [before EXCEPT ![i].Content = last'.text]
            /\ dirs' = [dirs EXCEPT ![last'.ch].Sections = after]
      ]_vars

\* C21 witness: 1.1.1 of [1.1, 1.1.1, 1.2] got the new content and the two
\* others kept theirs
C21_Witness ==
    /\ last.op = "UpdateSection"
    /\ last.ok
    /\ last.num = <<1, 1, 1>>
    /\ [i \in 1..Len(dirs[1].Sections) |-> dirs[1].Sections[i].Number]
           = << <<1, 1>>, <<1, 1, 1>>, <<1, 2>> >>
    /\ [i \in 1..Len(dirs[1].Sections) |-> dirs[1].Sections[i].Content]
           = <<SectionContent, NewContent, SectionContent>>

\* the call just made was addressed to something that is not stored: a
\* document the root directory does not hold, a chapter without a directory,
\* a section number the chapter does not list, a figure ID no chapter lists
MissingTarget ==
    \/ /\ last'.op \in {"AddChapter", "GetChapter"}
       /\ "doc" \in DOMAIN last'
       /\ \/ ~DocumentExists(last'.doc)
          \/ /\ last'.op = "GetChapter"
             /\ last'.ch \notin DOMAIN documents[last'.doc].dirs
    \/ /\ last'.op \in {"AddSection", "AddImage", "DeleteChapter"}
       /\ last'.ch \notin DOMAIN dirs
    \/ /\ last'.op \in {"UpdateSection", "DeleteSection"}
       /\ last'.num \notin StoredNumbers(last'.ch)
    \/ /\ last'.op \in {"UpdateImageCaption", "DeleteImage"}
       /\ last'.fig \notin AllFigureIDs

\* C22: a call addressed to a document, chapter, section or figure that does
\* not exist returns an error and leaves every stored document, manifest and
\* chapter directory as it was; GetChapter finds no chapter where no chapter
\* directory is.
C22_MissingTargetFailsWithoutEffect ==
    [][ /\ MissingTarget =>
              /\ ~last'.ok
              /\ UNCHANGED <<manifest, counts, dirs, documents>>
        /\ \A n \in 1..(MaxMutTitles + 2) : n \notin DOMAIN dirs' => ~GetChapter(n)'.ok
      ]_vars

\* a DeleteSection that named a section the chapter does not list, on a
\* chapter that lists other sections
C22_Witness ==
    /\ last.op = "DeleteSection"
    /\ ~last.ok
    /\ last.ch \in DOMAIN dirs
    /\ dirs[last.ch].Sections # <<>>

\* C23: AddSection with a level outside 1..6, an empty title or an empty
\* content returns an error and leaves manifest and chapter directories as
\* they were; with a level in 1..6, a title and a content, on a chapter that
\* has a directory, it succeeds and stores one more section there.
C23_AddSectionValidatesItsInput ==
    [][ last'.op = "AddSection" =>
          LET rejected == \/ last'.title = ""
                          \/ last'.text = ""
                          \/ last'.lvl < 1
                          \/ last'.lvl > 6
          IN  /\ rejected =>
                    /\ ~last'.ok
                    /\ UNCHANGED <<manifest, counts, dirs, documents>>
              /\ (~rejected /\ last'.ch \in DOMAIN dirs) =>
                    /\ last'.ok
                    /\ TotalSections' = TotalSections + 1
      ]_vars

\* an AddSection at level 6 that succeeded
C23_Witness ==
    /\ last.op = "AddSection"
    /\ last.ok
    /\ last.lvl = 6
    /\ TotalSections > 0

\* C24: AddChapter with a position below 1 or above N + 1 on a document of N
\* chapters fails and leaves manifest, counts and chapter directories as they
\* were.
C24_InvalidPositionRejected ==
    [][ (/\ last'.op = "AddChapter"
         /\ last'.hasPos
         /\ (last'.pos < 1 \/ last'.pos > Len(manifest) + 1))
        =>
        /\ ~last'.ok
        /\ UNCHANGED <<manifest, counts, dirs>>
      ]_vars

\* C25: a move_chapter call whose from or to lies outside 1..N returns an
\* error without a panic and leaves manifest, counts and chapter directories
\* as they were.
C25_MoveOutsideListRejected ==
    [][ (/\ last'.op = "MoveChapter"
         /\ \/ last'.ch \notin 1..Len(manifest)
            \/ last'.to \notin 1..Len(manifest))
        =>
        /\ ~last'.ok
        /\ "panic" \notin DOMAIN last'
        /\ UNCHANGED <<manifest, counts, dirs>>
      ]_vars

\* a move from position 0 was rejected on a document of two chapters
C25_Witness ==
    /\ last.op = "MoveChapter"
    /\ ~last.ok
    /\ last.ch = 0
    /\ last.to = 1
    /\ Len(manifest) = 2

\* C26: the root directory never holds more than MaxDocuments documents, and
\* a CreateDocument called while it holds MaxDocuments fails and creates
\* nothing.
C26_DocumentCountCapped ==
    [][ /\ Cardinality(DOMAIN documents') <= MaxDocuments
        /\ (/\ last'.op = "CreateDocument"
            /\ Cardinality(DOMAIN documents) = MaxDocuments)
           =>
           /\ ~last'.ok
           /\ UNCHANGED documents
      ]_vars

\* a CreateDocument with a title and an unused ID failed on a full root directory
C26_Witness ==
    /\ last.op = "CreateDocument"
    /\ ~last.ok
    /\ last.text = DocTitle
    /\ last.doc \notin DOMAIN documents
    /\ Cardinality(DOMAIN documents) = MaxDocuments

\* C27: DeleteDocument(d) on a stored document succeeds; afterwards d is not
\* stored, its manifest and its chapters cannot be loaded, and every other
\* document is stored as before. DeleteDocument on a document that is not
\* stored returns an error.
C27_DeleteDocumentCascades ==
    [][ last'.op = "DeleteDocument" =>
          IF DocumentExists(last'.doc)
          THEN /\ last'.ok
               /\ ~DocumentExists(last.doc)'
               /\ ~LoadManifest(last.doc)'.ok
               /\ \A n \in 1..(MaxLibChapters + 1) : ~GetChapterFrom(last.doc, n)'.ok
               /\ DOMAIN documents' = (DOMAIN documents) \ {last'.doc}
               /\ \A e \in DOMAIN documents' : documents'[e] = documents[e]
          ELSE /\ ~last'.ok
               /\ UNCHANGED documents
      ]_vars

\* a document was deleted and a document with two chapters is still stored
C27_Witness ==
    /\ last.op = "DeleteDocument"
    /\ last.ok
    /\ \E e \in DOMAIN documents : Len(documents[e].manifest) = 2

DottedNumber(number) ==
    LET F[i \in 1..Len(number)] ==
            IF i = 1 THEN Itoa(number[1]) ELSE F[i - 1] \o <<".">> \o Itoa(number[i])
    IN  F[Len(number)]

C30_ExportRebuildsFirst ==
    /\ (export.validated \/ export.generated \/ export.started) =>
           export.rebuilt = [i \in 1..Len(export.chapters) |-> export.chapters[i].Number]
    /\ export.error = "rebuild" =>
           /\ export.phase = "failed"
           /\ ~export.validated
           /\ ~export.generated
           /\ ~export.started

\* the renderer was started for a document of three chapters
C30_Witness ==
    /\ export.started
    /\ Len(export.chapters) = 3
    /\ export.rebuilt = <<1, 2, 3>>

\* C31: an ExportDocument or PreviewChapter call that is waiting for pandoc
\* returns, by the deadline at the latest, whether or not pandoc ever ends
C31_RunningCallReturns ==
    (export.phase = "running") ~> (export.phase \in {"done", "failed"})

\* C32: in every document reached through AddChapter, DeleteChapter and
\* MoveChapter, every directory rename of a shift finds its target free: no
\* rename of an AddChapter with a position or of a DeleteChapter on a stored
\* chapter is refused because the target directory exists
C32_RenamesTargetFreeLocations ==
    [][ /\ (/\ last'.op = "AddChapter"
            /\ last'.hasPos
            /\ last'.text # "")
           => renumberChapters(dirs, manifest, last'.pos, 1, 0).ok
        /\ (/\ last'.op = "DeleteChapter"
            /\ last'.ch \in DOMAIN dirs)
           => renumberChapters(Without(dirs, last'.ch), manifest, last'.ch + 1, -1, 0).ok
      ]_vars

\* the manifest lists chapters 1..N in order and storage holds exactly those
DenseDocument ==
    /\ \A i \in 1..Len(manifest) : manifest[i].Number = i
    /\ DOMAIN dirs = 1..Len(manifest)

\* C33: an AddChapter with a position or a DeleteChapter that fails leaves
\* the manifest as it was. When the k-th rename of the shift fails on a
\* document whose chapters 1..N are stored as listed, the call fails and the
\* k - 1 renames before it stay done, as does the removal of the deleted
\* chapter: AddChapter has moved chapters N-k+2..N up by one and left slot
\* N-k+2 empty, DeleteChapter(c) has moved chapters c+1..c+k-1 down by one
\* and left slot c+k-1 empty; no other chapter is touched
C33_FailedShiftIsNotUndone ==
    [][ /\ (/\ last'.op \in {"AddChapter", "DeleteChapter"}
            /\ ~last'.ok)
           => manifest' = manifest /\ counts' = counts
        /\ (/\ last'.op = "AddChapter"
            /\ "fault" \in DOMAIN last'
            /\ DenseDocument
            /\ last'.fault <= Len(manifest) - last'.pos + 1)
           =>
           LET N == Len(manifest)
               gap == N - last'.fault + 2
           IN  /\ ~last'.ok
               /\ DOMAIN dirs' = (1..(N + 1)) \ {gap}
               /\ \A k \in 1..N :
                     IF k >= gap
                     THEN dirs'[k + 1] = dirs[k]
                     ELSE dirs'[k] = dirs[k]
        /\ (/\ last'.op = "DeleteChapter"
            /\ "fault" \in DOMAIN last'
            /\ DenseDocument
            /\ last'.ch \in 1..Len(manifest)
            /\ last'.fault <= Len(manifest) - last'.ch)
           =>
           LET N == Len(manifest)
               c == last'.ch
               gap == c + last'.fault - 1
           IN  /\ ~last'.ok
               /\ DOMAIN dirs' = (1..N) \ {gap}
               /\ \A k \in (1..N) \ {c} :
                     IF k > c /\ k <= gap
                     THEN dirs'[k - 1] = dirs[k]
                     ELSE dirs'[k] = dirs[k]
      ]_vars

\* DeleteChapter(1) on chapters A, B, C whose second rename failed: B was
\* moved to 1, slot 2 is empty, C is still 3, the manifest lists all three
C33_Witness ==
    /\ last.op = "DeleteChapter"
    /\ ~last.ok
    /\ last.ch = 1
    /\ "fault" \in DOMAIN last
    /\ last.fault = 2
    /\ manifest = Appended(3)
    /\ DOMAIN dirs = {1, 3}
    /\ dirs[1].Title = TitleOf(2)
    /\ dirs[3].Title = TitleOf(3)

\* both callers have returned from AddSection calls on the same chapter that
\* each loaded the chapter before the other one saved it
BothRaced ==
    /\ \A w \in Writers : calls[w].pc = "returned" /\ calls[w].ok /\ calls[w].raced
    /\ calls[1].ch = calls[2].ch

\* what the lost update leaves: one returned number for both calls, and in
\* the stored chapter the sections both callers loaded followed by the new
\* section of one caller only
LostUpdate ==
    /\ calls[1].section.Number = calls[2].section.Number
    /\ calls[1].loaded = calls[2].loaded
    /\ \E w \in Writers :
          dirs[calls[w].ch].Sections = Append(calls[w].loaded.Sections, calls[w].section)

\* C34 as stated: two AddSection calls on the same chapter that both load
\* the chapter metadata before either saves it both succeed, return the same
\* section number, and only one of the two new sections remains stored
C34_RacingCallsLoseOneSection ==
    (/\ \A w \in Writers : calls[w].pc = "returned" /\ calls[w].raced
     /\ calls[1].ch = calls[2].ch)
    => (BothRaced /\ LostUpdate)

\* C34 for calls at the same level: two AddSection calls on the same chapter
\* and at the same level that both load the chapter metadata before either
\* saves it both succeed, return the same section number, and only one of
\* the two new sections remains stored
C34_RacingCallsAtOneLevelLoseOneSection ==
    (/\ \A w \in Writers : calls[w].pc = "returned" /\ calls[w].raced
     /\ calls[1].ch = calls[2].ch
     /\ calls[1].level = calls[2].level)
    => (BothRaced /\ LostUpdate)

\* two racing level-1 calls with different titles on the second chapter have
\* both returned and the chapter holds one section
C34_Witness ==
    /\ BothRaced
    /\ calls[1].ch = 2
    /\ Len(manifest) = 2
    /\ calls[1].level = 1
    /\ calls[2].level = 1
    /\ calls[1].section.Title # calls[2].section.Title
    /\ Len(dirs[2].Sections) = 1

\* C35: every stored section has a level field equal to the length of its
\* number minus 1, and that level lies in 1..6
C35_LevelIsNumberLengthMinusOne ==
    \A c \in DOMAIN dirs :
        \A i \in 1..Len(dirs[c].Sections) :
            /\ dirs[c].Sections[i].Level = Len(dirs[c].Sections[i].Number) - 1
            /\ dirs[c].Sections[i].Level \in MinLevel..MaxLevel

\* a level-6 section with its seven-component number is stored, it has been
\* updated, and a DeleteSection has just removed another section
C35_Witness ==
    /\ last.op = "DeleteSection"
    /\ last.ok
    /\ \E i \in 1..Len(dirs[last.ch].Sections) :
          /\ dirs[last.ch].Sections[i].Level = MaxLevel
          /\ Len(dirs[last.ch].Sections[i].Number) = MaxLevel + 1
          /\ dirs[last.ch].Sections[i].Content = NewContent

\* C36: after every successful operation the chapter numbers that have a
\* directory are exactly the chapter numbers the manifest lists
C36_StorageMatchesManifest ==
    last.ok => DOMAIN dirs = {manifest[i].Number : i \in 1..Len(manifest)}

\* C37: every successful DeleteChapter leaves the manifest with exactly one
\* entry less and chapter storage with exactly one directory less
C37_DeleteChapterRemovesExactlyOne ==
    [][ (/\ last'.op = "DeleteChapter"
         /\ last'.ok)
        =>
        /\ Len(manifest') = Len(manifest) - 1
        /\ Cardinality(DOMAIN dirs') = Cardinality(DOMAIN dirs) - 1
      ]_vars

\* C38: a successful MoveChapter(from, to) with from # to leaves the manifest
\* list as the old list with the entry at index from taken out and put back
\* at index to: the same entries, none lost, none twice, the same length;
\* MoveChapter(from, from) on a listed chapter succeeds and changes nothing
C38_MoveChapterPermutesTheList ==
    [][ /\ (/\ last'.op = "MoveChapter"
            /\ last'.ok
            /\ last'.ch # last'.to)
           =>
           /\ Len(manifest') = Len(manifest)
           /\ last'.ch \in 1..Len(manifest)
           /\ last'.to \in 1..Len(manifest)
           /\ manifest'[last'.to] = manifest[last'.ch]
           /\ \A i \in 1..Len(manifest) :
                 manifest'[i] = manifest[MovedFrom(last'.ch, last'.to, i)]
           /\ \A k \in 1..Len(manifest) :
                 Cardinality({i \in 1..Len(manifest) : MovedFrom(last'.ch, last'.to, i) = k}) = 1
        /\ (/\ last'.op = "MoveChapter"
            /\ last'.ch = last'.to
            /\ last'.ch \in 1..Len(manifest))
           =>
           /\ last'.ok
           /\ UNCHANGED <<manifest, counts, dirs>>
      ]_vars

\* MoveChapter(3, 1) on chapters A, B, C has left the list C, A, B
C38_Witness ==
    /\ last.op = "MoveChapter"
    /\ last.ok
    /\ last.ch = 3
    /\ last.to = 1
    /\ Len(manifest) = 3
    /\ [i \in 1..3 |-> manifest[i].Title] = <<TitleOf(3), TitleOf(1), TitleOf(2)>>

====
